---- MODULE Spec2Model ----
(***************************************************************************)
(* DevAgent (jayarjo/devagent): provider selection and fallback            *)
(* (ProviderFactory, the providers' validateCLI, EnvironmentValidator),    *)
(* the TTL cache (RepositoryCache) and the fix-mode run (DevAgent, main).  *)
(*                                                                         *)
(* Strings that the code inspects character by character (toLowerCase,     *)
(* regular expressions) are tuples of one-character strings; Undefined is  *)
(* the value of an environment variable that is not set.                   *)
(***************************************************************************)
EXTENDS Integers, Sequences, FiniteSets, TLC

VARIABLES env, lastSet, ret, cli, now, ticks, files, cret, run, procs, inv, fn,
          proc

vars == <<env, lastSet, ret, cli, now, ticks, files, cret, run, procs, inv, fn,
          proc>>

(***************************************************************************)
(* JavaScript values                                                       *)
(***************************************************************************)
Undefined == <<"undefined">>

EmptyString == <<>>

Truthy(v) == v # Undefined /\ v # EmptyString

UpperChars == <<"A", "B", "C", "D", "E", "F", "G", "H", "I", "J", "K", "L", "M",
                "N", "O", "P", "Q", "R", "S", "T", "U", "V", "W", "X", "Y", "Z">>

LowerChars == <<"a", "b", "c", "d", "e", "f", "g", "h", "i", "j", "k", "l", "m",
                "n", "o", "p", "q", "r", "s", "t", "u", "v", "w", "x", "y", "z">>

DigitChars == <<"0", "1", "2", "3", "4", "5", "6", "7", "8", "9">>

InSeq(c, s) == \E i \in 1..Len(s) : s[i] = c

LowerChar(c) ==
    IF InSeq(c, UpperChars)
    THEN LowerChars[CHOOSE i \in 1..Len(UpperChars) : UpperChars[i] = c]
    ELSE c

toLowerCase(s) == [i \in 1..Len(s) |-> LowerChar(s[i])]

(***************************************************************************)
(* types: enum AIProvider                                                  *)
(***************************************************************************)
CLAUDE == <<"c", "l", "a", "u", "d", "e">>

GEMINI == <<"g", "e", "m", "i", "n", "i">>

OPENAI == <<"o", "p", "e", "n", "a", "i">>

AIProviderValues == <<CLAUDE, GEMINI, OPENAI>>

AIProviders == {CLAUDE, GEMINI, OPENAI}

(***************************************************************************)
(* process.env                                                             *)
(***************************************************************************)
KeyA == <<"k", "A">>

KeyB == <<"k", "B">>

KeyValues == {Undefined, EmptyString, KeyA, KeyB}

KeyVars == {"ANTHROPIC_API_KEY", "GOOGLE_API_KEY", "OPENAI_API_KEY"}

ProviderNameValues ==
    {Undefined, EmptyString, CLAUDE,
     <<"G", "E", "M", "I", "N", "I">>,
     <<"O", "p", "e", "n", "A", "I">>,
     <<"g", "p", "t">>}

ModelValues == {Undefined, <<"m">>}

TokenValues == {Undefined, <<"t">>}

IssueNumberValues == {Undefined, <<"4", "2">>, <<"4", "x">>}

RepositoryValues == {Undefined, <<"o", "/", "r">>, <<"o", "r">>}

EnvVars == {"ANTHROPIC_API_KEY", "GOOGLE_API_KEY", "OPENAI_API_KEY", "AI_PROVIDER",
            "AI_MODEL", "GITHUB_TOKEN", "ISSUE_NUMBER", "REPOSITORY"}

EnvDomain(v) ==
    CASE v \in KeyVars -> KeyValues
      [] v = "AI_PROVIDER" -> ProviderNameValues
      [] v = "AI_MODEL" -> ModelValues
      [] v = "GITHUB_TOKEN" -> TokenValues
      [] v = "ISSUE_NUMBER" -> IssueNumberValues
      [] v = "REPOSITORY" -> RepositoryValues

ProviderVars == KeyVars \cup {"AI_PROVIDER", "AI_MODEL"}

Envs ==
    [ANTHROPIC_API_KEY : KeyValues, GOOGLE_API_KEY : KeyValues, OPENAI_API_KEY : KeyValues,
     AI_PROVIDER : ProviderNameValues, AI_MODEL : {Undefined},
     GITHUB_TOKEN : TokenValues, ISSUE_NUMBER : IssueNumberValues,
     REPOSITORY : RepositoryValues]

(* the workflow's environment before any provider setting is made *)
BaseEnv ==
    [ANTHROPIC_API_KEY |-> Undefined, GOOGLE_API_KEY |-> Undefined,
     OPENAI_API_KEY |-> Undefined, AI_PROVIDER |-> Undefined, AI_MODEL |-> Undefined,
     GITHUB_TOKEN |-> <<"t">>, ISSUE_NUMBER |-> <<"4", "2">>,
     REPOSITORY |-> <<"o", "/", "r">>]

(***************************************************************************)
(* ProviderFactory                                                         *)
(***************************************************************************)
KeyVarOf(p) ==
    CASE p = CLAUDE -> "ANTHROPIC_API_KEY"
      [] p = GEMINI -> "GOOGLE_API_KEY"
      [] p = OPENAI -> "OPENAI_API_KEY"

detectProviderGeminiFirst(e) ==
    IF Truthy(e["GOOGLE_API_KEY"]) THEN GEMINI
    ELSE IF Truthy(e["ANTHROPIC_API_KEY"]) THEN CLAUDE
    ELSE IF Truthy(e["OPENAI_API_KEY"]) THEN OPENAI
    ELSE CLAUDE

detectProvider(e) ==
    IF Truthy(e["ANTHROPIC_API_KEY"]) THEN CLAUDE
    ELSE IF Truthy(e["GOOGLE_API_KEY"]) THEN GEMINI
    ELSE IF Truthy(e["OPENAI_API_KEY"]) THEN OPENAI
    ELSE CLAUDE

envProviderOf(e) ==
    IF e["AI_PROVIDER"] = Undefined THEN Undefined ELSE toLowerCase(e["AI_PROVIDER"])

getProviderConfigWrongKey(e) ==
    LET envProvider == envProviderOf(e)
        provider == IF Truthy(envProvider) /\ envProvider \in AIProviders
                    THEN envProvider
                    ELSE detectProvider(e)
    IN  [provider |-> provider,
         model |-> e["AI_MODEL"],
         apiKey |-> IF provider = GEMINI THEN e["OPENAI_API_KEY"] ELSE e[KeyVarOf(provider)]]

getProviderConfig(e) ==
    LET envProvider == envProviderOf(e)
        provider == IF Truthy(envProvider) /\ envProvider \in AIProviders
                    THEN envProvider
                    ELSE detectProvider(e)
    IN  [provider |-> provider,
         model |-> e["AI_MODEL"],
         apiKey |-> e[KeyVarOf(provider)]]

getFallbackProvidersKeepPrimary(primaryProvider) == AIProviderValues

getFallbackProviders(primaryProvider) ==
    LET keep(p) == p # primaryProvider
    IN  SelectSeq(AIProviderValues, keep)

(***************************************************************************)
(* child_process.spawnSync results of the availability and auth probes     *)
(***************************************************************************)
NoError == "none"

SpawnResults ==
    {[error |-> NoError, status |-> st] : st \in {0, 1, 127, 143}}
    \cup {[error |-> code, status |-> -1] : code \in {"TIMEOUT", "ETIMEDOUT", "ENOENT"}}

(* what a try block or a method does: it throws or returns, after a log line *)
Threw(msg) == [threw |-> TRUE, log |-> msg]

Returned(msg) == [threw |-> FALSE, log |-> msg]

(* the auth probe of the three providers: every branch warns and returns *)
authCheck(provider, authResult) ==
    IF authResult.error # NoError
    THEN IF authResult.error = "TIMEOUT"
         THEN Returned("auth check timed out, will proceed anyway")
         ELSE Returned("will proceed without auth validation")
    ELSE IF authResult.status # 0
    THEN IF provider = CLAUDE /\ authResult.status = 143
         THEN Returned("auth check was terminated, will proceed anyway")
         ELSE Returned("auth check failed with status, will proceed anyway")
    ELSE Returned("authentication successful")

(* the body of validateCLI's try block *)
validateCLIBody(provider, versionResult, authResult) ==
    IF versionResult.error # NoError
    THEN Threw("CLI not found")
    ELSE IF provider # OPENAI /\ versionResult.status # 0
    THEN Threw("CLI version check failed with status")
    ELSE authCheck(provider, authResult)

validateCLINoCatch(provider, versionResult, authResult) ==
    validateCLIBody(provider, versionResult, authResult)

(* validateCLI: the catch block logs a warning and swallows the error *)
validateCLI(provider, versionResult, authResult) ==
    LET body == validateCLIBody(provider, versionResult, authResult)
    IN  IF body.threw
        THEN Returned("validation failed, will proceed without full validation")
        ELSE body

(* the sets of providers whose construction and validateCLI() throw, over  *)
(* all outcomes of the probes                                              *)
CanThrow(p) == {validateCLI(p, v, a).threw : v \in SpawnResults, a \in SpawnResults}

ShippedThrowSets ==
    {T \in SUBSET AIProviders :
        /\ \A p \in T : TRUE \in CanThrow(p)
        /\ \A p \in AIProviders \ T : FALSE \in CanThrow(p)}

(* any implementation of the IAIProvider interface: validateCLI(): void    *)
(* may throw                                                               *)
InterfaceThrowSets == SUBSET AIProviders

AllFailedMessage == "All AI providers failed to initialize"

RECURSIVE fallbackLoop(_, _, _, _, _, _)
fallbackLoop(e, primaryConfig, fallbackProviders, i, constructed, throws) ==
    IF i > Len(fallbackProviders)
    THEN [outcome |-> "rejected", error |-> AllFailedMessage,
          provider |-> Undefined, config |-> primaryConfig, constructed |-> constructed]
    ELSE LET fallbackProvider == fallbackProviders[i]
             fallbackConfig == [primaryConfig EXCEPT
                                   !.provider = fallbackProvider,
                                   !.apiKey = e[KeyVarOf(fallbackProvider)]]
         IN  IF ~Truthy(fallbackConfig.apiKey)
             THEN fallbackLoop(e, primaryConfig, fallbackProviders, i + 1, constructed, throws)
             ELSE IF fallbackProvider \in throws
             THEN fallbackLoop(e, primaryConfig, fallbackProviders, i + 1,
                               Append(constructed, fallbackProvider), throws)
             ELSE [outcome |-> "returned", error |-> NoError,
                   provider |-> fallbackProvider, config |-> fallbackConfig,
                   constructed |-> Append(constructed, fallbackProvider)]

(* createProviderWithFallback; throws is the set of providers whose        *)
(* createProvider(...).validateCLI() throws during this call               *)
createProviderWithFallback(e, throws) ==
    LET primaryConfig == getProviderConfig(e)
    IN  IF primaryConfig.provider \notin throws
        THEN [outcome |-> "returned", error |-> NoError,
              provider |-> primaryConfig.provider, config |-> primaryConfig,
              constructed |-> <<primaryConfig.provider>>]
        ELSE fallbackLoop(e, primaryConfig, getFallbackProviders(primaryConfig.provider),
                          1, <<primaryConfig.provider>>, throws)

(***************************************************************************)
(* EnvironmentValidator                                                    *)
(***************************************************************************)
FIX == "fix"

CACHE_UPDATE == "cache-update"

DevAgentModes == {FIX, CACHE_UPDATE}

(* /^[a-zA-Z0-9_.-]+\/[a-zA-Z0-9_.-]+$/ *)
RepositoryChar(c) ==
    InSeq(c, LowerChars) \/ InSeq(c, UpperChars) \/ InSeq(c, DigitChars)
    \/ c \in {"_", ".", "-"}

RepositoryFormat(s) ==
    \E k \in 2..(Len(s) - 1) :
        /\ s[k] = "/"
        /\ \A i \in (1..Len(s)) \ {k} : RepositoryChar(s[i])

(* /^\d+$/ *)
IssueNumberFormat(s) == Len(s) >= 1 /\ \A i \in 1..Len(s) : InSeq(s[i], DigitChars)

validateAIProviderNoKeyCheck(e) ==
    LET envProvider == envProviderOf(e)
    IN  IF ~Truthy(e["ANTHROPIC_API_KEY"]) /\ ~Truthy(e["GOOGLE_API_KEY"])
           /\ ~Truthy(e["OPENAI_API_KEY"])
        THEN Threw("At least one AI provider API key is required")
        ELSE IF Truthy(envProvider) /\ envProvider \notin AIProviders
        THEN Threw("Invalid AI_PROVIDER")
        ELSE Returned("ok")

validateAIProvider(e) ==
    LET hasAnthropicKey == Truthy(e["ANTHROPIC_API_KEY"])
        hasGoogleKey == Truthy(e["GOOGLE_API_KEY"])
        hasOpenAIKey == Truthy(e["OPENAI_API_KEY"])
        envProvider == envProviderOf(e)
        providerKeyMap(p) == CASE p = CLAUDE -> hasAnthropicKey
                               [] p = GEMINI -> hasGoogleKey
                               [] p = OPENAI -> hasOpenAIKey
    IN  IF ~hasAnthropicKey /\ ~hasGoogleKey /\ ~hasOpenAIKey
        THEN Threw("At least one AI provider API key is required")
        ELSE IF Truthy(envProvider) /\ envProvider \notin AIProviders
        THEN Threw("Invalid AI_PROVIDER")
        ELSE IF Truthy(envProvider) /\ ~providerKeyMap(envProvider)
        THEN Threw("AI_PROVIDER is set but its API key is not provided")
        ELSE Returned("ok")

validate(mode, e) ==
    LET baseRequiredVars == IF mode = CACHE_UPDATE
                            THEN {"GITHUB_TOKEN", "REPOSITORY"}
                            ELSE {"GITHUB_TOKEN", "ISSUE_NUMBER", "REPOSITORY"}
        missing == {v \in baseRequiredVars : ~Truthy(e[v])}
        ai == IF mode = FIX THEN validateAIProvider(e) ELSE Returned("ok")
    IN  IF missing # {}
        THEN Threw("Missing required environment variables")
        ELSE IF ai.threw
        THEN ai
        ELSE IF Truthy(e["REPOSITORY"]) /\ ~RepositoryFormat(e["REPOSITORY"])
        THEN Threw("Invalid repository format")
        ELSE IF mode = FIX /\ Truthy(e["ISSUE_NUMBER"])
                /\ ~IssueNumberFormat(e["ISSUE_NUMBER"])
        THEN Threw("Invalid issue number")
        ELSE Returned("ok")

(***************************************************************************)
(* RepositoryCache: three JSON files in /tmp/devagent-cache, each read     *)
(* through a TTL check on the file's modification time.  Time is counted   *)
(* in minutes.                                                             *)
(***************************************************************************)
REPOSITORY_STRUCTURE == 30

FILE_SUMMARIES == 60 * 24 * 7

ISSUE_PATTERNS == 60 * 24

Null == [null |-> TRUE]

Repositories == {"a/x", "b/y"}

(* RepositoryStructure values *)
Structures ==
    {[type |-> ty, mainLanguage |-> "TypeScript", directories |-> <<"src">>,
      configFiles |-> <<"package.json">>, relevantFiles |-> rf, fromCache |-> fc] :
        ty \in {"React App", "Node.js Project"},
        rf \in {<<>>, <<"src/auth.ts">>},
        fc \in BOOLEAN}

Paths == {"src/a.ts", "src/b.ts"}

(* FileSummary values as DevAgent.updateFileSummary builds them: lastModified is a Date *)
Summaries ==
    {[lineCount |-> 1, functions |-> <<>>, purpose |-> "Source Code",
      lastModified |-> [kind |-> "Date", value |-> 1]],
     [lineCount |-> 2, functions |-> <<"f">>, purpose |-> "Utility",
      lastModified |-> [kind |-> "Date", value |-> 2]]}

EmptyMap == [k \in {} |-> Null]

(* JSON.parse(JSON.stringify(summary)): a Date comes back as its ISO string *)
jsonSummary(summary) ==
    [summary EXCEPT !.lastModified = [kind |-> "string", value |-> summary.lastModified.value]]

jsonSummariesRaw(summaries) == summaries

jsonSummaries(summaries) == [k \in DOMAIN summaries |-> jsonSummary(summaries[k])]

spreadKeepExisting(a, b) ==
    [k \in DOMAIN a \cup DOMAIN b |-> IF k \in DOMAIN a THEN a[k] ELSE b[k]]

(* { ...a, ...b } *)
spread(a, b) == [k \in DOMAIN a \cup DOMAIN b |-> IF k \in DOMAIN b THEN b[k] ELSE a[k]]

(* delete map[key] *)
deleteKey(map, key) == [k \in DOMAIN map \ {key} |-> map[k]]

(* map[key] = value *)
assignKey(map, key, value) == [k \in DOMAIN map \cup {key} |-> IF k = key THEN value ELSE map[k]]

(* outcomes of the file-system calls of one cache read and one cache write *)
IOOutcomes == [statFails : BOOLEAN, readFails : BOOLEAN, writeFails : BOOLEAN]

NoIOFailure == [statFails |-> FALSE, readFails |-> FALSE, writeFails |-> FALSE]

getCacheFile(name) == name

(* isExpired: existsSync, then statSync (which can throw), then the age test *)
isExpiredAtOrAfter(fs, t, filePath, maxAgeMinutes, io) ==
    IF ~fs[filePath].exists THEN [threw |-> FALSE, value |-> TRUE]
    ELSE IF io.statFails THEN [threw |-> TRUE, value |-> TRUE]
    ELSE [threw |-> FALSE, value |-> (t - fs[filePath].mtime) >= maxAgeMinutes]

isExpired(fs, t, filePath, maxAgeMinutes, io) ==
    IF ~fs[filePath].exists THEN [threw |-> FALSE, value |-> TRUE]
    ELSE IF io.statFails THEN [threw |-> TRUE, value |-> TRUE]
    ELSE [threw |-> FALSE, value |-> (t - fs[filePath].mtime) > maxAgeMinutes]

(* the read shared by the three getters: the parsed file, or the default   *)
(* on a miss, on expiry and on a read or parse error                       *)
readCache(fs, t, name, maxAgeMinutes, default, io) ==
    LET cacheFile == getCacheFile(name)
        expired == isExpired(fs, t, cacheFile, maxAgeMinutes, io)
    IN  IF expired.threw THEN [threw |-> TRUE, value |-> default]
        ELSE IF ~expired.value /\ ~io.readFails
        THEN [threw |-> FALSE, value |-> fs[cacheFile].data]
        ELSE [threw |-> FALSE, value |-> default]

(* fs.writeFileSync inside try/catch: a failed write is logged and leaves the file as it was *)
writeCache(fs, t, name, cacheData, io) ==
    IF io.writeFails
    THEN fs
    ELSE [fs EXCEPT ![getCacheFile(name)] = [exists |-> TRUE, mtime |-> t, data |-> cacheData]]

getRepositoryStructure(fs, t, io) ==
    readCache(fs, t, "repo-structure", REPOSITORY_STRUCTURE, Null, io)

saveRepositoryStructureStripped(fs, t, repository, structure, io) ==
    writeCache(fs, t, "repo-structure",
               [repository |-> repository, timestamp |-> t,
                structure |-> [structure EXCEPT !.relevantFiles = <<>>, !.fromCache = FALSE]], io)

saveRepositoryStructure(fs, t, repository, structure, io) ==
    writeCache(fs, t, "repo-structure",
               [repository |-> repository, timestamp |-> t, structure |-> structure], io)

getFileSummaries(fs, t, repository, io) ==
    readCache(fs, t, "file-summaries", FILE_SUMMARIES,
              [repository |-> repository, timestamp |-> t, summaries |-> EmptyMap], io)

(* saveFileSummaries re-reads the file and merges the argument over it *)
saveFileSummaries(fs, t, repository, summaries, io) ==
    LET existing == getFileSummaries(fs, t, repository, io)
        merged == spread(existing.value.summaries, summaries)
        cacheData == [repository |-> repository, timestamp |-> t,
                      summaries |-> jsonSummaries(merged)]
    IN  IF existing.threw
        THEN [threw |-> TRUE, files |-> fs]
        ELSE [threw |-> FALSE, files |-> writeCache(fs, t, "file-summaries", cacheData, io)]

saveFileSummary(fs, t, repository, filePath, summary, io1, io2) ==
    LET summaries == getFileSummaries(fs, t, repository, io1)
        currentSummaries == assignKey(summaries.value.summaries, filePath, summary)
    IN  IF summaries.threw
        THEN [threw |-> TRUE, files |-> fs]
        ELSE saveFileSummaries(fs, t, repository, currentSummaries, io2)

removeFileSummaryAlwaysSave(fs, t, repository, filePath, io1, io2) ==
    LET summaries == getFileSummaries(fs, t, repository, io1)
    IN  IF summaries.threw
        THEN [threw |-> TRUE, files |-> fs]
        ELSE saveFileSummaries(fs, t, repository,
                               deleteKey(summaries.value.summaries, filePath), io2)

removeFileSummary(fs, t, repository, filePath, io1, io2) ==
    LET summaries == getFileSummaries(fs, t, repository, io1)
    IN  IF summaries.threw
        THEN [threw |-> TRUE, files |-> fs]
        ELSE IF filePath \in DOMAIN summaries.value.summaries
        THEN saveFileSummaries(fs, t, repository,
                               deleteKey(summaries.value.summaries, filePath), io2)
        ELSE [threw |-> FALSE, files |-> fs]

IssueTypes == {"bug", "feature"}

getIssuePatterns(fs, t, repository, io) ==
    readCache(fs, t, "issue-patterns", ISSUE_PATTERNS,
              [repository |-> repository, timestamp |-> t, patterns |-> EmptyMap], io)

(* saveIssuePattern sets the type's entry in the map it read and writes the file *)
saveIssuePattern(fs, t, repository, issueType, relevantFiles, io) ==
    LET existing == getIssuePatterns(fs, t, repository, io)
        patterns == assignKey(existing.value.patterns, issueType, relevantFiles)
        cacheData == [repository |-> repository, timestamp |-> t, patterns |-> patterns]
    IN  IF existing.threw
        THEN [threw |-> TRUE, files |-> fs]
        ELSE [threw |-> FALSE, files |-> writeCache(fs, t, "issue-patterns", cacheData, io)]

(***************************************************************************)
(* RepositoryAnalyzer.getRepositoryContext: the cached structure on a hit, *)
(* a fresh one on a miss, which is cached without its relevant files       *)
(***************************************************************************)
FreshStructures == {s \in Structures : ~s.fromCache}

getRepositoryContextUnstripped(fs, t, repository, issueText, relevant, fresh, io) ==
    LET cached == getRepositoryStructure(fs, t, io)
        structure == [fresh EXCEPT !.relevantFiles = IF issueText THEN relevant ELSE <<>>]
    IN  IF cached.threw
        THEN [threw |-> TRUE, value |-> Null, files |-> fs]
        ELSE IF cached.value # Null
        THEN [threw |-> FALSE,
              value |-> [cached.value.structure EXCEPT
                            !.relevantFiles = IF issueText THEN relevant
                                              ELSE cached.value.structure.relevantFiles,
                            !.fromCache = TRUE],
              files |-> fs]
        ELSE [threw |-> FALSE, value |-> structure,
              files |-> saveRepositoryStructure(fs, t, repository, structure, io)]

getRepositoryContextCachedRelevant(fs, t, repository, issueText, relevant, fresh, io) ==
    LET cached == getRepositoryStructure(fs, t, io)
        structure == [fresh EXCEPT !.relevantFiles = IF issueText THEN relevant ELSE <<>>]
        cacheableStructure == [structure EXCEPT !.relevantFiles = <<>>, !.fromCache = FALSE]
    IN  IF cached.threw
        THEN [threw |-> TRUE, value |-> Null, files |-> fs]
        ELSE IF cached.value # Null
        THEN [threw |-> FALSE,
              value |-> [cached.value.structure EXCEPT !.fromCache = TRUE],
              files |-> fs]
        ELSE [threw |-> FALSE, value |-> structure,
              files |-> saveRepositoryStructure(fs, t, repository, cacheableStructure, io)]

getRepositoryContextAlwaysSave(fs, t, repository, issueText, relevant, fresh, io) ==
    LET cached == getRepositoryStructure(fs, t, io)
        structure == [fresh EXCEPT !.relevantFiles = IF issueText THEN relevant ELSE <<>>]
        cacheableStructure == [structure EXCEPT !.relevantFiles = <<>>, !.fromCache = FALSE]
    IN  IF cached.threw
        THEN [threw |-> TRUE, value |-> Null, files |-> fs]
        ELSE IF cached.value # Null
        THEN [threw |-> FALSE,
              value |-> [cached.value.structure EXCEPT
                            !.relevantFiles = IF issueText THEN relevant
                                              ELSE cached.value.structure.relevantFiles,
                            !.fromCache = TRUE],
              files |-> saveRepositoryStructure(fs, t, repository,
                                                cached.value.structure, io)]
        ELSE [threw |-> FALSE, value |-> structure,
              files |-> saveRepositoryStructure(fs, t, repository, cacheableStructure, io)]

getRepositoryContext(fs, t, repository, issueText, relevant, fresh, io) ==
    LET cached == getRepositoryStructure(fs, t, io)
        structure == [fresh EXCEPT !.relevantFiles = IF issueText THEN relevant ELSE <<>>]
        cacheableStructure == [structure EXCEPT !.relevantFiles = <<>>, !.fromCache = FALSE]
    IN  IF cached.threw
        THEN [threw |-> TRUE, value |-> Null, files |-> fs]
        ELSE IF cached.value # Null
        THEN [threw |-> FALSE,
              value |-> [cached.value.structure EXCEPT
                            !.relevantFiles = IF issueText THEN relevant
                                              ELSE cached.value.structure.relevantFiles,
                            !.fromCache = TRUE],
              files |-> fs]
        ELSE [threw |-> FALSE, value |-> structure,
              files |-> saveRepositoryStructure(fs, t, repository, cacheableStructure, io)]

(***************************************************************************)
(* The fix-mode run: main, DevAgent.run and DevAgent.runFixMode            *)
(***************************************************************************)
(* how one `claude -p` execution of ClaudeService.runClaude ends *)
ClaudeOutcomes ==
    {"ok", "cli not valid", "timed out", "spawn error", "non-zero status",
     "rate limited", "invalid JSON", "error in response"}

(* runClaude logs and rethrows every failure; it runs the claude CLI only *)
runClaude(outcome) ==
    IF outcome = "ok" THEN Returned("ok") ELSE Threw(outcome)

IdleRun ==
    [pc |-> "idle", attempts |-> <<>>, exitCode |-> Null, failedAt |-> "none",
     context |-> Null, changedFiles |-> <<>>, pending |-> <<>>]

(* main's catch: console.error and process.exit(1) *)
Fatal(r, step) == [r EXCEPT !.pc = "exited", !.exitCode = 1, !.failedAt = step]

(* main returns normally *)
Completed(r) == [r EXCEPT !.pc = "exited", !.exitCode = 0]

(***************************************************************************)
(* Cache-update mode: DevAgent.runCacheUpdateMode over the changed files   *)
(***************************************************************************)
(* the characters of the file names the cache-update run is given *)
PathChars(file) ==
    CASE file = "src/a.ts" -> <<"s", "r", "c", "/", "a", ".", "t", "s">>
      [] file = "src/b.ts" -> <<"s", "r", "c", "/", "b", ".", "t", "s">>
      [] file = "package.json" ->
            <<"p", "a", "c", "k", "a", "g", "e", ".", "j", "s", "o", "n">>

(* String.prototype.includes and a pattern anchored with $ *)
Includes(s, sub) ==
    \E i \in 0..(Len(s) - Len(sub)) : \A j \in 1..Len(sub) : s[i + j] = sub[j]

EndsWith(s, sub) ==
    /\ Len(s) >= Len(sub)
    /\ \A j \in 1..Len(sub) : s[Len(s) - Len(sub) + j] = sub[j]

SKIP_PATTERNS(s) ==
    \/ Includes(s, <<"n", "o", "d", "e", "_", "m", "o", "d", "u", "l", "e", "s">>)
    \/ Includes(s, <<".", "g", "i", "t">>)
    \/ Includes(s, <<"d", "i", "s", "t", "/">>)
    \/ Includes(s, <<"b", "u", "i", "l", "d", "/">>)
    \/ Includes(s, <<"o", "u", "t", "/">>)
    \/ Includes(s, <<".", "t", "e", "s", "t", ".">>)
    \/ Includes(s, <<".", "s", "p", "e", "c", ".">>)
    \/ Includes(s, <<"t", "e", "s", "t", "/">>)
    \/ Includes(s, <<"t", "e", "s", "t", "s", "/">>)
    \/ Includes(s, <<"_", "_", "t", "e", "s", "t", "s", "_", "_">>)
    \/ EndsWith(s, <<".", "m", "d">>)
    \/ EndsWith(s, <<".", "t", "x", "t">>)
    \/ EndsWith(s, <<".", "j", "s", "o", "n">>)
    \/ EndsWith(s, <<".", "l", "o", "c", "k">>)
    \/ Includes(s, <<"y", "a", "r", "n", ".", "l", "o", "c", "k">>)
    \/ Includes(s, <<"p", "a", "c", "k", "a", "g", "e", "-", "l", "o", "c", "k",
                     ".", "j", "s", "o", "n">>)

INCLUDE_PATTERNS(s) ==
    \/ \E ext \in {<<"j", "s">>, <<"t", "s">>, <<"j", "s", "x">>, <<"t", "s", "x">>,
                   <<"p", "y">>, <<"g", "o">>, <<"j", "a", "v", "a">>,
                   <<"c", "p", "p">>, <<"c">>, <<"p", "h", "p">>, <<"r", "b">>} :
          EndsWith(s, <<".">> \o ext)
    \/ EndsWith(s, <<"p", "a", "c", "k", "a", "g", "e", ".", "j", "s", "o", "n">>)

(* the skip patterns are tested first *)
isRelevantFileForCache(file) ==
    IF SKIP_PATTERNS(PathChars(file)) THEN FALSE ELSE INCLUDE_PATTERNS(PathChars(file))

structuralChange(file) ==
    LET f == PathChars(file)
    IN  \/ Includes(f, <<"p", "a", "c", "k", "a", "g", "e", ".", "j", "s", "o", "n">>)
        \/ Includes(f, <<".", "c", "o", "n", "f", "i", "g", ".">>)
        \/ Includes(f, <<"t", "s", "c", "o", "n", "f", "i", "g", ".", "j", "s", "o", "n">>)
        \/ Includes(f, <<"w", "e", "b", "p", "a", "c", "k", ".", "c", "o", "n", "f", "i", "g">>)
        \/ Includes(f, <<"n", "e", "x", "t", ".", "c", "o", "n", "f", "i", "g">>)

(* the changed file on disk when updateFileSummary looks at it *)
FileStates == {"missing", "readable", "unreadable"}

(* updateFileSummary: a missing file is removed from the cache, a readable *)
(* one is summarised and saved; every error is caught and logged           *)
updateFileSummary(fs, t, repository, file, fileState, summary, io) ==
    CASE fileState = "missing" ->
            removeFileSummary(fs, t, repository, file, io[1], io[2]).files
      [] fileState = "readable" ->
            saveFileSummary(fs, t, repository, file, summary, io[1], io[2]).files
      [] fileState = "unreadable" -> fs

(***************************************************************************)
(* The providers' runPrompt (ClaudeProvider, GeminiProvider,               *)
(* OpenAIProvider): validateCLI, the prompt file, the CLI subprocess and   *)
(* what is made of its result                                              *)
(***************************************************************************)
(* the phrases the providers look for *)
RATE_LIMIT == <<"r", "a", "t", "e", " ", "l", "i", "m", "i", "t">>

USAGE_LIMIT == <<"u", "s", "a", "g", "e", " ", "l", "i", "m", "i", "t">>

QUOTA == <<"q", "u", "o", "t", "a">>

QUOTA_EXCEEDED ==
    <<"q", "u", "o", "t", "a", " ", "e", "x", "c", "e", "e", "d", "e", "d">>

TRY_AGAIN_LATER ==
    <<"t", "r", "y", " ", "a", "g", "a", "i", "n", " ", "l", "a", "t", "e",
      "r">>

TOO_MANY_REQUESTS ==
    <<"t", "o", "o", " ", "m", "a", "n", "y", " ", "r", "e", "q", "u", "e",
      "s", "t", "s">>

(* checkForRateLimiting's list *)
rateLimitIndicators ==
    <<RATE_LIMIT, USAGE_LIMIT, QUOTA_EXCEEDED, TRY_AGAIN_LATER, TOO_MANY_REQUESTS>>

(* what the CLI wrote to stdout: an empty JSON object, a JSON string, and  *)
(* texts that are not JSON                                                 *)
ERROR_RESPONSE == <<"{", "\"", "e", "r", "r", "o", "r", "\"", ":", "{", "}", "}">>

Stdouts ==
    {EmptyString,
     <<"{", "}">>,
     ERROR_RESPONSE,
     <<"\"", "r", "a", "t", "e", " ", "l", "i", "m", "i", "t", "\"">>,
     RATE_LIMIT,
     <<"R", "a", "t", "e", " ", "l", "i", "m", "i", "t">>,
     TOO_MANY_REQUESTS,
     <<"d", "o", "n", "e">>}

Stderrs == {EmptyString, RATE_LIMIT, <<"U", "s", "a", "g", "e", " ", "l", "i", "m", "i", "t">>}

(* exit statuses of the CLI; -1 stands for status null (no exit code) *)
ExitStatuses == {0, 1, 2, 127, 130, -1}

(* spawnSync results of the prompt subprocess: a spawn error, or an exit   *)
(* with what the CLI wrote                                                 *)
PromptResults ==
    {[error |-> code, status |-> -1, stdout |-> EmptyString, stderr |-> EmptyString] :
        code \in {"TIMEOUT", "ETIMEDOUT", "ENOENT"}}
    \cup {[error |-> NoError, status |-> st, stdout |-> so, stderr |-> se] :
            st \in ExitStatuses, so \in Stdouts, se \in Stderrs}

(* the subprocess ran longer than the timeout option: spawnSync reports it *)
(* with error code ETIMEDOUT; TIMEOUT is the code the providers test for   *)
TimedOut(result) == result.error \in {"TIMEOUT", "ETIMEDOUT"}

(* JSON.parse on the texts of Stdouts: {} and {"error":{}} are objects, a  *)
(* text in double quotes without quote or backslash inside is a string,    *)
(* the others throw                                                        *)
JSONParse(text) ==
    IF text = <<"{", "}">> \/ text = ERROR_RESPONSE
    THEN [threw |-> FALSE, kind |-> "object"]
    ELSE IF /\ Len(text) >= 2
            /\ text[1] = "\"" /\ text[Len(text)] = "\""
            /\ \A i \in 2..(Len(text) - 1) : text[i] \notin {"\"", "\\"}
    THEN [threw |-> FALSE, kind |-> "string"]
    ELSE [threw |-> TRUE, kind |-> "SyntaxError"]

WhiteSpace == {" ", "\n", "\t", "\r"}

(* String.prototype.trim *)
trim(s) ==
    LET kept == {i \in 1..Len(s) : s[i] \notin WhiteSpace}
    IN  IF kept = {} THEN EmptyString
        ELSE SubSeq(s, CHOOSE i \in kept : \A j \in kept : i <= j,
                       CHOOSE i \in kept : \A j \in kept : i >= j)

(* Math.ceil(n / 4) for a length n *)
CeilDiv4(n) == (n + 3) \div 4

ZeroUsage == [inputTokens |-> 0, outputTokens |-> 0, cachedTokens |-> 0]

(* Gemini and OpenAI: estimateTokenUsage *)
estimateTokenUsage(output) ==
    [inputTokens |-> 0, outputTokens |-> CeilDiv4(Len(output)), cachedTokens |-> 0]

(* ClaudeProvider.parseTokenUsage: neither {} nor a JSON string has usage *)
parseTokenUsage(kind) == ZeroUsage

NoPromptError ==
    [type |-> "none", code |-> NoError, status |-> 0, hint |-> "", rateLimitHint |-> FALSE]

PromptError(type) == [NoPromptError EXCEPT !.type = type]

NoResponse == [messages |-> Undefined, usage |-> ZeroUsage]

PromptThrew(error) ==
    [threw |-> TRUE, error |-> error, response |-> NoResponse, warned |-> FALSE]

PromptReturned(response) ==
    [threw |-> FALSE, error |-> NoPromptError, response |-> response, warned |-> FALSE]

(* ClaudeProvider.checkForRateLimiting: logs a warning, returns nothing *)
checkForRateLimiting(output) ==
    \E i \in 1..Len(rateLimitIndicators) :
        Includes(toLowerCase(output), rateLimitIndicators[i])

(* parsed.error of the texts JSON.parse accepts: the object of             *)
(* {"error":{}}, undefined for {} and for a string                         *)
parsedError(text) ==
    IF text = ERROR_RESPONSE THEN <<"{", "}">> ELSE Undefined

(* ClaudeProvider.parseResponse: the output is parsed as JSON; a parse     *)
(* failure is the rate-limit error when the output includes one of four    *)
(* phrases as written, the invalid-JSON error otherwise                    *)
parseResponseClaude(output) ==
    IF ~JSONParse(output).threw
    THEN PromptReturned([messages |-> Undefined,
                         usage |-> parseTokenUsage(JSONParse(output).kind),
                         error |-> parsedError(output)])
    ELSE IF \/ Includes(output, RATE_LIMIT)
            \/ Includes(output, USAGE_LIMIT)
            \/ Includes(output, QUOTA_EXCEEDED)
            \/ Includes(output, TRY_AGAIN_LATER)
    THEN PromptThrew(PromptError("rate limited"))
    ELSE PromptThrew(PromptError("invalid JSON"))

(* parseResponse that passes the output on untrimmed *)
parseResponseRaw(provider, output) ==
    IF provider = CLAUDE
    THEN parseResponseClaude(output)
    ELSE PromptReturned([messages |-> <<[role |-> "assistant", content |-> output]>>,
                         usage |-> estimateTokenUsage(output)])

(* parseResponse of the three providers: Gemini and OpenAI return the      *)
(* trimmed output as the one assistant message, with estimated usage       *)
parseResponse(provider, output) ==
    IF provider = CLAUDE
    THEN parseResponseClaude(output)
    ELSE PromptReturned([messages |-> <<[role |-> "assistant", content |-> trim(output)]>>,
                         usage |-> estimateTokenUsage(output)])

HINT_STATUS_1 ==
    "common causes: authentication failure, rate limits, invalid prompt, or permission issues"

HINT_STATUS_127 == "command not found - CLI may not be installed"

HINT_STATUS_130 == "interrupted by signal"

(* the hint with the keys 1 and 127 exchanged *)
errorHintSwapped(status) ==
    IF status = 127 THEN HINT_STATUS_1
    ELSE IF status = 1 THEN HINT_STATUS_127
    ELSE IF status = 130 THEN HINT_STATUS_130
    ELSE ""

(* let errorHint = ''; if (result.status === 1) ... *)
errorHint(status) ==
    IF status = 1 THEN HINT_STATUS_1
    ELSE IF status = 127 THEN HINT_STATUS_127
    ELSE IF status = 130 THEN HINT_STATUS_130
    ELSE ""

(* the scan of stderr after a non-zero exit: includes(), as written *)
rateLimitHint(stderr) ==
    LET stderrText == IF Truthy(stderr) THEN stderr ELSE EmptyString
    IN  \/ Includes(stderrText, RATE_LIMIT)
        \/ Includes(stderrText, USAGE_LIMIT)
        \/ Includes(stderrText, QUOTA)

(* fs.writeFileSync(promptFile, prompt) that leaves no file *)
writePromptNever(writeFails) == [threw |-> writeFails, written |-> FALSE]

(* fs.writeFileSync(promptFile, prompt) *)
writePrompt(writeFails) == [threw |-> writeFails, written |-> ~writeFails]

(* runPrompt after spawnSync returned: if (result.error) ..., if           *)
(* (result.status !== 0) ..., else the output file and parseResponse;      *)
(* logWriteFails is the outcome of the writeFileSync calls on this path    *)
afterSpawn(provider, result, logWriteFails) ==
    IF result.error # NoError
    THEN IF result.error = "TIMEOUT"
         THEN PromptThrew(PromptError("timeout"))
         ELSE PromptThrew([PromptError("spawn") EXCEPT !.code = result.error])
    ELSE IF result.status # 0
    THEN IF (Truthy(result.stdout) \/ Truthy(result.stderr)) /\ logWriteFails
         THEN PromptThrew(PromptError("fs"))
         ELSE PromptThrew([PromptError("exit") EXCEPT
                              !.status = result.status,
                              !.hint = errorHint(result.status),
                              !.rateLimitHint = rateLimitHint(result.stderr)])
    ELSE IF logWriteFails
    THEN PromptThrew(PromptError("fs"))
    ELSE [parseResponse(provider, result.stdout) EXCEPT
             !.warned = provider = CLAUDE /\ checkForRateLimiting(result.stdout)]

(* ClaudeService.isRateLimitError: an error without message is none *)
isRateLimitError(error) == FALSE

(* ClaudeService.runClaude after spawnSync returned: the same tests of     *)
(* result.error and result.status, the output file, JSON.parse with the    *)
(* same catch block, then the test of parsed.error; the parsed value is    *)
(* returned as it is                                                       *)
runClaudeAfterSpawn(result, logWriteFails) ==
    IF result.error # NoError
    THEN IF result.error = "TIMEOUT"
         THEN PromptThrew(PromptError("timeout"))
         ELSE PromptThrew([PromptError("spawn") EXCEPT !.code = result.error])
    ELSE IF result.status # 0
    THEN IF (Truthy(result.stdout) \/ Truthy(result.stderr)) /\ logWriteFails
         THEN PromptThrew(PromptError("fs"))
         ELSE PromptThrew([PromptError("exit") EXCEPT
                              !.status = result.status,
                              !.hint = errorHint(result.status),
                              !.rateLimitHint = rateLimitHint(result.stderr)])
    ELSE IF logWriteFails
    THEN PromptThrew(PromptError("fs"))
    ELSE IF JSONParse(result.stdout).threw
    THEN IF \/ Includes(result.stdout, RATE_LIMIT)
            \/ Includes(result.stdout, USAGE_LIMIT)
            \/ Includes(result.stdout, QUOTA_EXCEEDED)
            \/ Includes(result.stdout, TRY_AGAIN_LATER)
         THEN PromptThrew(PromptError("rate limited"))
         ELSE PromptThrew(PromptError("invalid JSON"))
    ELSE IF parsedError(result.stdout) # Undefined
    THEN IF isRateLimitError(parsedError(result.stdout))
         THEN PromptThrew(PromptError("rate limited"))
         ELSE PromptThrew(PromptError("API error"))
    ELSE [PromptReturned([messages |-> Undefined,
                          usage |-> ZeroUsage,
                          error |-> parsedError(result.stdout)]) EXCEPT
             !.warned = checkForRateLimiting(result.stdout)]

(* runPrompt as a whole: the catch block logs and rethrows *)
runPrompt(provider, versionResult, authResult, promptWriteFails, result, logWriteFails) ==
    IF validateCLI(provider, versionResult, authResult).threw
    THEN PromptThrew(PromptError("validateCLI"))
    ELSE IF writePrompt(promptWriteFails).threw
    THEN PromptThrew(PromptError("fs"))
    ELSE afterSpawn(provider, result, logWriteFails)

(* the outcome classes of an attempt *)
Terminal == {"success", "timeout", "error", "rate-limited"}

(* how an attempt ended: returned, the timeout error, an error that names  *)
(* rate limiting, or any other error                                       *)
Classify(out) ==
    IF ~out.threw THEN "success"
    ELSE IF out.error.type = "timeout" THEN "timeout"
    ELSE IF out.error.type = "rate limited" \/ out.error.rateLimitHint THEN "rate-limited"
    ELSE "error"

NoPromptResult ==
    [error |-> NoError, status |-> 0, stdout |-> EmptyString, stderr |-> EmptyString]

IdleInv ==
    [pc |-> "idle", provider |-> CLAUDE, trace |-> <<>>, promptWritten |-> FALSE,
     spawns |-> 0, result |-> NoPromptResult, logWriteFails |-> FALSE,
     out |-> PromptReturned(NoResponse)]

(***************************************************************************)
(* CostTracker.estimateTokens                                              *)
(***************************************************************************)
(* the value null where a string is expected *)
NullText == <<"null">>

MaxTextLen == 5

(* texts of letters and blanks, up to MaxTextLen characters *)
Texts == UNION {[1..n -> {"a", " "}] : n \in 0..MaxTextLen}

(* estimateTokens with the length divided by 4 and rounded down *)
estimateTokensFloor(text) ==
    IF text \in {Undefined, NullText, EmptyString} THEN 0
    ELSE Len(text) \div 4

(* if (!text) return 0; return Math.ceil(text.length / 4) *)
estimateTokens(text) ==
    IF text \in {Undefined, NullText, EmptyString} THEN 0
    ELSE CeilDiv4(Len(text))

(***************************************************************************)
(* FileRelevanceAnalyzer.calculateFileRelevance                            *)
(***************************************************************************)
MENTIONED_IN_ISSUE == 100

KEYWORD_MATCH == 50

RELEVANT_EXTENSION == 25

RECENTLY_MODIFIED == 10

TEST_FILE_PENALTY == -20

(* s.split(sep).pop(): what follows the last sep, all of s without a sep *)
LastSegment(s, sep) ==
    LET at == {i \in 1..Len(s) : s[i] = sep}
    IN  IF at = {} THEN s
        ELSE SubSeq(s, (CHOOSE i \in at : \A j \in at : i >= j) + 1, Len(s))

webExtensions ==
    {<<"j", "s">>, <<"t", "s">>, <<"j", "s", "x">>, <<"t", "s", "x">>, <<"c", "s", "s">>, <<"h", "t", "m", "l">>, <<"v", "u", "e">>}

backendExtensions ==
    {<<"p", "y">>, <<"j", "a", "v", "a">>, <<"g", "o">>, <<"r", "b">>, <<"p", "h", "p">>, <<"c", "s">>}

configExtensions ==
    {<<"j", "s", "o", "n">>, <<"y", "m", "l">>, <<"y", "a", "m", "l">>, <<"t", "o", "m", "l">>, <<"i", "n", "i">>}

IssueKinds == {"bug", "feature", "enhancement", "fix", "general"}

isRelevantExtension(file, issueType) ==
    LET ext == toLowerCase(LastSegment(file, "."))
    IN  IF ext = EmptyString THEN FALSE
        ELSE IF issueType \in {"feature", "enhancement"}
        THEN ext \in webExtensions \cup backendExtensions \cup configExtensions
        ELSE ext \in webExtensions \cup backendExtensions

(* /\.test\.|\.spec\.|test\/|tests\// *)
TestFilePattern(file) ==
    \/ Includes(file, <<".", "t", "e", "s", "t", ".">>)
    \/ Includes(file, <<".", "s", "p", "e", "c", ".">>)
    \/ Includes(file, <<"t", "e", "s", "t", "/">>)
    \/ Includes(file, <<"t", "e", "s", "t", "s", "/">>)

(* fs.statSync(file) and the age of the file *)
StatOutcomes == {"recent", "old", "throws"}

(* the score before Math.max(0, score) *)
scoreOf(file, keywords, issueBody, stat) ==
    LET fileName == LastSegment(file, "/")
        fileNameLower == toLowerCase(fileName)
        keywordMatches ==
            {i \in 1..Len(keywords.terms) :
                \/ Includes(fileNameLower, toLowerCase(keywords.terms[i]))
                \/ Includes(toLowerCase(file), toLowerCase(keywords.terms[i]))}
    IN  (IF Includes(toLowerCase(issueBody), fileName) THEN MENTIONED_IN_ISSUE ELSE 0)
        + Cardinality(keywordMatches) * KEYWORD_MATCH
        + (IF isRelevantExtension(file, keywords.type) THEN RELEVANT_EXTENSION ELSE 0)
        + (IF stat = "recent" THEN RECENTLY_MODIFIED ELSE 0)
        + (IF ~InSeq(<<"t", "e", "s", "t">>, keywords.terms) /\ TestFilePattern(file)
           THEN TEST_FILE_PENALTY ELSE 0)

(* the score returned as computed, without Math.max *)
calculateFileRelevanceUnbounded(file, keywords, issueBody, stat) ==
    scoreOf(file, keywords, issueBody, stat)

(* calculateFileRelevance: return Math.max(0, score) *)
calculateFileRelevance(file, keywords, issueBody, stat) ==
    IF scoreOf(file, keywords, issueBody, stat) > 0
    THEN scoreOf(file, keywords, issueBody, stat)
    ELSE 0

(* the files, keyword lists and issue bodies the score is computed for *)
ScoredFiles ==
    {<<"s", "r", "c", "/", "a", "u", "t", "h", ".", "t", "s">>, <<"s", "r", "c", "/", "a", "u", "t", "h", ".", "t", "e", "s", "t", ".", "t", "s">>, <<"t", "e", "s", "t", "s", "/", "n", "o", "t", "e", "s", ".", "m", "d">>, <<"t", "e", "s", "t", "/", "A", "u", "t", "h", ".", "s", "p", "e", "c", ".", "j", "s">>, <<"d", "o", "c", "s", "/">>, <<"c", "o", "n", "f", "i", "g", ".", "J", "S", "O", "N">>, <<"R", "E", "A", "D", "M", "E">>}

TermLists ==
    {<<>>,
     <<<<"a", "u", "t", "h">>>>,
     <<<<"t", "e", "s", "t">>>>,
     <<<<"a", "u", "t", "h">>, <<"t", "e", "s", "t">>, <<"n", "o", "t", "e", "s">>>>}

IssueBodies ==
    {<<>>, <<"s", "e", "e", " ", "a", "u", "t", "h", ".", "t", "s">>, <<"A", "u", "t", "h", ".", "T", "e", "s", "t", ".", "t", "s", " ", "f", "a", "i", "l", "s">>,
     <<"u", "p", "d", "a", "t", "e", " ", "R", "E", "A", "D", "M", "E">>}

(***************************************************************************)
(* FileRelevanceAnalyzer.extractIssueKeywords                              *)
(***************************************************************************)
Letter(c) == InSeq(c, LowerChars) \/ InSeq(c, UpperChars)

(* \w of a regular expression *)
WordChar(c) == Letter(c) \/ InSeq(c, DigitChars) \/ c = "_"

(* [a-zA-Z0-9_-] *)
KeywordChar(c) == WordChar(c) \/ c = "-"

(* \b between s[i] and s[i + 1]; outside the text there is no word char *)
WordBoundaryAfter(s, i) ==
    (i >= 1 /\ i <= Len(s) /\ WordChar(s[i]))
        # (i + 1 >= 1 /\ i + 1 <= Len(s) /\ WordChar(s[i + 1]))

(* the ends e of a match of /\b[a-zA-Z][a-zA-Z0-9_-]{2,}\b/ starting at i *)
MatchEnds(s, i) ==
    IF ~(Letter(s[i]) /\ WordBoundaryAfter(s, i - 1)) THEN {}
    ELSE {e \in (i + 2)..Len(s) :
            /\ \A k \in (i + 1)..e : KeywordChar(s[k])
            /\ WordBoundaryAfter(s, e)}

RECURSIVE MatchAll(_, _)
(* text.match(/.../g) from position i on: the quantifier is greedy, the    *)
(* search goes on behind a match                                           *)
MatchAll(s, i) ==
    IF i > Len(s) THEN <<>>
    ELSE IF MatchEnds(s, i) = {} THEN MatchAll(s, i + 1)
    ELSE LET e == CHOOSE x \in MatchEnds(s, i) : \A y \in MatchEnds(s, i) : x >= y
         IN  <<SubSeq(s, i, e)>> \o MatchAll(s, e + 1)

(* [...new Set(keywords)]: the first occurrence of each keyword, in order *)
uniqueKeywords(keywords) ==
    LET first == {k \in 1..Len(keywords) : \A j \in 1..(k - 1) : keywords[j] # keywords[k]}
    IN  [n \in 1..Cardinality(first) |->
            keywords[CHOOSE k \in first : Cardinality({j \in first : j <= k}) = n]]

(* slice(0, n) *)
slice(seq, n) == SubSeq(seq, 1, IF Len(seq) < n THEN Len(seq) ELSE n)

WORD_BUG == <<"b", "u", "g">>

WORD_ERROR == <<"e", "r", "r", "o", "r">>

WORD_FAIL == <<"f", "a", "i", "l">>

WORD_FEATURE == <<"f", "e", "a", "t", "u", "r", "e">>

WORD_ADD == <<"a", "d", "d">>

WORD_ENHANCE == <<"e", "n", "h", "a", "n", "c", "e">>

WORD_IMPROVE == <<"i", "m", "p", "r", "o", "v", "e">>

WORD_FIX == <<"f", "i", "x">>

(* the type with the test for 'fix' made first *)
determineTypeFixFirst(text) ==
    IF Includes(text, WORD_FIX) THEN "fix"
    ELSE IF Includes(text, WORD_BUG) \/ Includes(text, WORD_ERROR) \/ Includes(text, WORD_FAIL) THEN "bug"
    ELSE IF Includes(text, WORD_FEATURE) \/ Includes(text, WORD_ADD) THEN "feature"
    ELSE IF Includes(text, WORD_ENHANCE) \/ Includes(text, WORD_IMPROVE) THEN "enhancement"
    ELSE "general"

(* let type = 'general'; if (text.includes('bug') || ...) type = 'bug'; else if ... *)
determineType(text) ==
    IF Includes(text, WORD_BUG) \/ Includes(text, WORD_ERROR) \/ Includes(text, WORD_FAIL) THEN "bug"
    ELSE IF Includes(text, WORD_FEATURE) \/ Includes(text, WORD_ADD) THEN "feature"
    ELSE IF Includes(text, WORD_ENHANCE) \/ Includes(text, WORD_IMPROVE) THEN "enhancement"
    ELSE IF Includes(text, WORD_FIX) THEN "fix"
    ELSE "general"

MAX_TERMS == 10

(* the terms without the limit of 10 *)
extractIssueKeywordsUnlimited(issueTitle, issueBody) ==
    LET text == toLowerCase(issueTitle \o <<" ">> \o issueBody)
    IN  [terms |-> uniqueKeywords(MatchAll(text, 1)), type |-> determineType(text)]

extractIssueKeywords(issueTitle, issueBody) ==
    LET text == toLowerCase(issueTitle \o <<" ">> \o issueBody)
    IN  [terms |-> slice(uniqueKeywords(MatchAll(text, 1)), MAX_TERMS),
         type |-> determineType(text)]

(* issue titles and bodies *)
IssueTitles ==
    {<<"B", "u", "g", ":", " ", "a", "p", "p", " ", "c", "r", "a", "s", "h", "e", "s">>,
     <<"F", "i", "x", " ", "l", "o", "g", "i", "n">>,
     <<"A", "d", "d", " ", "d", "a", "r", "k", " ", "m", "o", "d", "e">>,
     <<"I", "m", "p", "r", "o", "v", "e", " ", "d", "o", "c", "s">>,
     <<"E", "n", "h", "a", "n", "c", "e", " ", "t", "h", "e", " ", "p", "r", "e", "f", "i", "x">>,
     <<"U", "p", "d", "a", "t", "e", " ", "r", "e", "a", "d", "m", "e">>,
     <<>>,
     <<"F", "a", "i", "l", "i", "n", "g", " ", "f", "i", "x", " ", "f", "o", "r", " ", "f", "e", "a", "t", "u", "r", "e">>}

IssueTexts ==
    {<<"N", "u", "l", "l", "P", "o", "i", "n", "t", "e", "r", "E", "x", "c", "e", "p", "t", "i", "o", "n", " ", "i", "n", " ", "U", "s", "e", "r", "S", "e", "r", "v", "i", "c", "e", ".", "j", "a", "v", "a">>,
     <<>>,
     <<"a", "d", "d", " ", "a", "d", "d", " ", "a", "d", "d">>,
     <<"o", "n", "e", " ", "t", "w", "o", " ", "t", "h", "r", "e", "e", " ", "f", "o", "u", "r", " ", "f", "i", "v", "e", " ", "s", "i", "x", " ", "s", "e", "v", "e", "n", " ", "e", "i", "g", "h", "t", " ", "n", "i", "n", "e", " ", "t", "e", "n", " ", "e", "l", "e", "v", "e", "n", " ", "t", "w", "e", "l", "v", "e">>,
     <<"e", "r", "r", "o", "r", "-", "h", "a", "n", "d", "l", "i", "n", "g", " ", "i", "n", " ", "a", "-", "b", " ", "a", "n", "d", " ", "x", "_", "y", "-", "z", "-", " ", "2", "f", "a">>,
     <<"t", "h", "e", " ", "a", "d", "d", "r", "e", "s", "s", " ", "b", "a", "r">>,
     <<"i", "t", " ", "i", "s", " ", "o", "k">>,
     <<"p", "l", "e", "a", "s", "e", " ", "i", "m", "p", "r", "o", "v", "e", " ", "a", "n", "d", " ", "f", "i", "x">>}

(***************************************************************************)
(* JavaScript numbers: IEEE 754 binary64, round to nearest, ties to even.  *)
(* A natural number is the tuple of its binary digits, least significant   *)
(* first; a number is zero or m * 2^e with a significand m of 53 digits.   *)
(***************************************************************************)
SIGNIFICAND_BITS == 53

(* the binary digits of n < 2^30, least significant first *)
NatBits(n) ==
    LET length == Cardinality({k \in 0..29 : 2^k <= n})
    IN  [i \in 1..length |-> (n \div 2^(i - 1)) % 2]

Reverse(seq) == [i \in 1..Len(seq) |-> seq[Len(seq) + 1 - i]]

Digit(a, i) == IF i <= Len(a) THEN a[i] ELSE 0

RECURSIVE AddBits(_, _, _, _, _)
(* the digits lo..hi of a + b, given the carry into lo, and the carry out  *)
(* of hi                                                                   *)
AddBits(a, b, lo, hi, carry) ==
    IF lo = hi
    THEN LET t == Digit(a, lo) + Digit(b, lo) + carry
         IN  [bits |-> <<t % 2>>, carry |-> t \div 2]
    ELSE LET mid == (lo + hi) \div 2
             low == AddBits(a, b, lo, mid, carry)
             high == AddBits(a, b, mid + 1, hi, low.carry)
         IN  [bits |-> low.bits \o high.bits, carry |-> high.carry]

Plus(a, b) ==
    IF a = <<>> THEN b
    ELSE IF b = <<>> THEN a
    ELSE LET n == IF Len(a) > Len(b) THEN Len(a) ELSE Len(b)
             s == AddBits(a, b, 1, n, 0)
         IN  IF s.carry = 1 THEN Append(s.bits, 1) ELSE s.bits

ShiftLeft(a, k) == IF a = <<>> THEN <<>> ELSE [i \in 1..k |-> 0] \o a

(* the digits 11j-10..11j of a as one figure in base 2048 *)
Limb(a, j) ==
    LET d(i) == Digit(a, 11 * (j - 1) + i)
    IN  d(1) + 2 * d(2) + 4 * d(3) + 8 * d(4) + 16 * d(5) + 32 * d(6) + 64 * d(7)
        + 128 * d(8) + 256 * d(9) + 512 * d(10) + 1024 * d(11)

(* a significand of 53 digits as five figures in base 2048 *)
Limbs(a) == [j \in 1..5 |-> Limb(a, j)]

(* the products of the figures of A and B that stand at weight 2048^(k-1) *)
Column(A, B, k) ==
    LET term(i) == IF k + 1 - i \in 1..5 THEN A[i] * B[k + 1 - i] ELSE 0
    IN  term(1) + term(2) + term(3) + term(4) + term(5)

RECURSIVE Carried(_, _, _)
(* the figures of the number whose columns are cols, from column k on *)
Carried(cols, k, carry) ==
    IF k > Len(cols) THEN <<carry>>
    ELSE <<(cols[k] + carry) % 2048>> \o Carried(cols, k + 1, (cols[k] + carry) \div 2048)

(* the binary digits of a number given by its figures in base 2048 *)
LimbBits(limbs) ==
    LET digits == [i \in 1..(11 * Len(limbs)) |->
                      (limbs[((i - 1) \div 11) + 1] \div 2^((i - 1) % 11)) % 2]
        length == Cardinality({i \in 1..Len(digits) : \E j \in i..Len(digits) : digits[j] = 1})
    IN  SubSeq(digits, 1, length)

(* a times b, for significands of at most 55 digits *)
MulBits(a, b) ==
    LET A == Limbs(a)
        B == Limbs(b)
    IN  LimbBits(Carried([k \in 1..9 |-> Column(A, B, k)], 1, 0))

Zero == [m |-> <<>>, e |-> 0]

(* n * 2^e, and something below the last digit of n if sticky, rounded to  *)
(* 53 digits                                                               *)
RoundBits(n, e, sticky) ==
    IF n = <<>> THEN Zero
    ELSE IF Len(n) <= SIGNIFICAND_BITS
    THEN [m |-> ShiftLeft(n, SIGNIFICAND_BITS - Len(n)),
          e |-> e - (SIGNIFICAND_BITS - Len(n))]
    ELSE LET drop == Len(n) - SIGNIFICAND_BITS
             q == SubSeq(n, drop + 1, Len(n))
             below == sticky \/ \E i \in 1..(drop - 1) : n[i] = 1
             up == n[drop] = 1 /\ (below \/ q[1] = 1)
             r == IF up THEN Plus(q, <<1>>) ELSE q
         IN  IF Len(r) > SIGNIFICAND_BITS
             THEN [m |-> SubSeq(r, 2, Len(r)), e |-> e + drop + 1]
             ELSE [m |-> r, e |-> e + drop]

(* the digits of q < 256 as eight digits, most significant first *)
ByteBits(q) == [i \in 1..8 |-> (q \div 2^(8 - i)) % 2]

(* seq without the zeros at its head *)
StripZeros(seq) ==
    IF \A i \in 1..Len(seq) : seq[i] = 0 THEN <<>>
    ELSE LET first == CHOOSE i \in 1..Len(seq) :
                          seq[i] = 1 /\ \A j \in 1..(i - 1) : seq[j] = 0
         IN  SubSeq(seq, first, Len(seq))

RECURSIVE QuotientBits(_, _, _, _)
(* long division, eight digits a step: the digits of the quotient, most    *)
(* significant first, until at least 55 digits stand behind its first 1;   *)
(* r < d <= ONE_MILLION, so that 256 * r stays an integer of the checker   *)
QuotientBits(r, d, acc, k) ==
    IF Len(acc) >= SIGNIFICAND_BITS + 2
    THEN [bits |-> acc, k |-> k, r |-> r]
    ELSE LET digits == ByteBits((256 * r) \div d)
         IN  QuotientBits((256 * r) % d, d,
                          IF acc = <<>> THEN StripZeros(digits) ELSE acc \o digits,
                          k + 8)

(* n / d for integers n >= 0 and d > 0 *)
Divide(n, d) ==
    IF n = 0 THEN Zero
    ELSE LET q == QuotientBits(n % d, d, Reverse(NatBits(n \div d)), 0)
         IN  RoundBits(Reverse(q.bits), 0 - q.k, q.r # 0)

(* the number of an integer literal *)
Number(n) == Divide(n, 1)

Times(x, y) ==
    IF x = Zero \/ y = Zero THEN Zero
    ELSE RoundBits(MulBits(x.m, y.m), x.e + y.e, FALSE)

Sum(x, y) ==
    IF x = Zero THEN y
    ELSE IF y = Zero THEN x
    ELSE LET e == IF x.e < y.e THEN x.e ELSE y.e
         IN  RoundBits(Plus(ShiftLeft(x.m, x.e - e), ShiftLeft(y.m, y.e - e)), e, FALSE)

(* x < y for numbers that are not negative *)
LessThan(x, y) ==
    IF y = Zero THEN FALSE
    ELSE IF x = Zero THEN TRUE
    ELSE IF x.e # y.e THEN x.e < y.e
    ELSE \E i \in 1..SIGNIFICAND_BITS :
            /\ x.m[i] < y.m[i]
            /\ \A j \in (i + 1)..SIGNIFICAND_BITS : x.m[j] = y.m[j]

(* the next number above x > 0 *)
NextUp(x) == RoundBits(Plus(x.m, <<1>>), x.e, FALSE)

(***************************************************************************)
(* Cost of a request: CostTracker.calculateCost and the providers'         *)
(* calculateCost                                                           *)
(***************************************************************************)
ONE_MILLION == 1000000

PROVIDER_PRICING(provider) ==
    CASE provider = CLAUDE ->
            [inputTokenPrice |-> Number(3), outputTokenPrice |-> Number(15),
             cachedInputPrice |-> Divide(3, 10)]
      [] provider = GEMINI ->
            [inputTokenPrice |-> Divide(5, 4), outputTokenPrice |-> Number(5),
             cachedInputPrice |-> Zero]
      [] provider = OPENAI ->
            [inputTokenPrice |-> Number(30), outputTokenPrice |-> Number(60),
             cachedInputPrice |-> Zero]

(* (tokens / 1_000_000) * price *)
tokenCost(tokens, price) == Times(Divide(tokens, ONE_MILLION), price)

(* a fee of one token at the input price whatever the usage *)
calculateCostWithFee(tokenUsage, provider) ==
    LET pricing == PROVIDER_PRICING(provider)
        inputCost == tokenCost(tokenUsage.inputTokens + 1, pricing.inputTokenPrice)
        outputCost == tokenCost(tokenUsage.outputTokens, pricing.outputTokenPrice)
        cachedCost == tokenCost(tokenUsage.cachedTokens, pricing.cachedInputPrice)
    IN  [inputCost |-> inputCost, outputCost |-> outputCost, cachedCost |-> cachedCost,
         totalCost |-> Sum(Sum(inputCost, outputCost), cachedCost),
         tokensUsed |-> tokenUsage]

(* every provider at the prices of OpenAI *)
calculateCostOneTariff(tokenUsage, provider) ==
    LET pricing == PROVIDER_PRICING(OPENAI)
        inputCost == tokenCost(tokenUsage.inputTokens, pricing.inputTokenPrice)
        outputCost == tokenCost(tokenUsage.outputTokens, pricing.outputTokenPrice)
        cachedCost == tokenCost(tokenUsage.cachedTokens, pricing.cachedInputPrice)
    IN  [inputCost |-> inputCost, outputCost |-> outputCost, cachedCost |-> cachedCost,
         totalCost |-> Sum(Sum(inputCost, outputCost), cachedCost),
         tokensUsed |-> tokenUsage]

(* CostTracker.calculateCost *)
calculateCost(tokenUsage, provider) ==
    LET pricing == PROVIDER_PRICING(provider)
        inputCost == tokenCost(tokenUsage.inputTokens, pricing.inputTokenPrice)
        outputCost == tokenCost(tokenUsage.outputTokens, pricing.outputTokenPrice)
        cachedCost == tokenCost(tokenUsage.cachedTokens, pricing.cachedInputPrice)
    IN  [inputCost |-> inputCost, outputCost |-> outputCost, cachedCost |-> cachedCost,
         totalCost |-> Sum(Sum(inputCost, outputCost), cachedCost),
         tokensUsed |-> tokenUsage]

(* calculateCost of ClaudeProvider, GeminiProvider and OpenAIProvider: the *)
(* prices are those of PROVIDER_PRICING, and only Claude's has a term for  *)
(* cached tokens                                                           *)
providerCalculateCost(provider, usage) ==
    LET PRICING == PROVIDER_PRICING(provider)
        inputCost == tokenCost(usage.inputTokens, PRICING.inputTokenPrice)
        outputCost == tokenCost(usage.outputTokens, PRICING.outputTokenPrice)
        cachedCost == tokenCost(usage.cachedTokens, PRICING.cachedInputPrice)
    IN  IF provider = CLAUDE
        THEN Sum(Sum(inputCost, outputCost), cachedCost)
        ELSE Sum(inputCost, outputCost)

MaxTokens == 2

LargeCache == 100

TokenUsage(inputTokens, outputTokens, cachedTokens) ==
    [inputTokens |-> inputTokens, outputTokens |-> outputTokens,
     cachedTokens |-> cachedTokens]

(* the usages whose costs are added and doubled *)
Usages ==
    {TokenUsage(i, o, c) : i \in 0..MaxTokens, o \in 0..MaxTokens, c \in {0, MaxTokens}}

(* the usages priced under every provider *)
PricedUsages ==
    {TokenUsage(i, o, c) : i \in 0..(MaxTokens + 1), o \in 0..(MaxTokens + 1),
                           c \in 0..(MaxTokens + 1) \cup {LargeCache}}

AddUsage(u1, u2) ==
    TokenUsage(u1.inputTokens + u2.inputTokens, u1.outputTokens + u2.outputTokens,
               u1.cachedTokens + u2.cachedTokens)


(***************************************************************************)
(* FileRelevanceAnalyzer.findRelevantFiles                                 *)
(***************************************************************************)
MAX_RELEVANT_FILES == 20

MaxFiles == 23

(* the i-th path printed by find: one of four kinds, named by a letter *)
FoundFile(i) ==
    LET c == <<LowerChars[i]>>
    IN  CASE i % 4 = 1 -> <<".", "/", "s", "r", "c", "/", "m">> \o c \o <<".", "t", "s">>
          [] i % 4 = 2 -> <<".", "/", "t", "e", "s", "t", "s", "/", "t">> \o c \o <<".", "p", "y">>
          [] i % 4 = 3 -> <<".", "/", "s", "r", "c", "/", "a", "u", "t", "h">> \o c \o <<".", "t", "s", "x">>
          [] i % 4 = 0 -> <<".", "/", "l", "i", "b", "/", "a", "u", "t", "h">> \o c \o <<".", "t", "e", "s", "t", ".", "j", "s">>

FoundWindow(from, n) == [i \in 1..n |-> FoundFile(from + i - 1)]

(* the outputs of find: n paths from one index on *)
FoundLists ==
    UNION {{FoundWindow(from, n) : n \in 0..(MaxFiles - from + 1)} : from \in 1..MaxFiles}

(* fs.statSync on the i-th file *)
StatPatterns == {"mixed", "throws"}

statAt(pattern, i) ==
    IF pattern = "mixed"
    THEN CASE i % 3 = 0 -> "recent" [] i % 3 = 1 -> "old" [] i % 3 = 2 -> "throws"
    ELSE pattern

(* .filter(item => item.score > 0) *)
filterPositive(items) == SelectSeq(items, LAMBDA item : item.score > 0)

(* .sort((a, b) => b.score - a.score): descending, equal scores in order *)
sortByScore(items) ==
    LET before(i) == {j \in 1..Len(items) :
                         \/ items[j].score > items[i].score
                         \/ items[j].score = items[i].score /\ j < i}
    IN  [k \in 1..Len(items) |->
            items[CHOOSE i \in 1..Len(items) : Cardinality(before(i)) = k - 1]]

(* .map(file => ({file, score, reasons: []})) *)
scoreFiles(keywords, issueBody, paths, stats) ==
    [i \in 1..Len(paths) |->
        [file |-> paths[i],
         score |-> calculateFileRelevance(paths[i], keywords, issueBody, statAt(stats, i))]]

(* every scored file returned, without slice(0, MAX_RELEVANT_FILES) *)
findRelevantFilesUncut(keywords, issueBody, found, stats) ==
    IF found.threw THEN <<>>
    ELSE LET scoredFiles == sortByScore(filterPositive(scoreFiles(keywords, issueBody,
                                                                    found.files, stats)))
         IN  [i \in 1..Len(scoredFiles) |-> scoredFiles[i].file]

(* findRelevantFiles; found is the outcome of execSync: the paths printed   *)
(* by find, or an exception                                                *)
findRelevantFiles(keywords, issueBody, found, stats) ==
    IF found.threw THEN <<>>
    ELSE LET scoredFiles == sortByScore(filterPositive(scoreFiles(keywords, issueBody,
                                                                    found.files, stats)))
             top == slice(scoredFiles, MAX_RELEVANT_FILES)
         IN  [i \in 1..Len(top) |-> top[i].file]

SearchKeywords ==
    {[terms |-> <<>>, type |-> "general"],
     [terms |-> <<<<"a", "u", "t", "h">>, <<"t", "e", "s", "t">>>>, type |-> "bug"]}

SearchBodies == {<<>>, <<"s", "e", "e", " ", "a", "u", "t", "h", "G", ".", "t", "s", "x", " ", "a", "n", "d", " ", "t", "f", ".", "p", "y">>}

(***************************************************************************)
(* The process: main, DevAgent.run in fix mode, the signal handlers and    *)
(* the buffer of GrafanaMetrics                                            *)
(***************************************************************************)
Signals == {"SIGINT", "SIGTERM"}

(* the callers of GrafanaMetrics.flush: main's finally, the interval timer *)
(* of the constructor and the two signal handlers                          *)
Flushers == {"main", "timer"} \cup Signals

NoSend == [active |-> FALSE, payload |-> {}]

(* the outcomes of git add, git commit, git push -u and the retried push *)
GitOutcomes == [add : BOOLEAN, commit : BOOLEAN, push : BOOLEAN, retry : BOOLEAN]

(* the process when main is called; exitCode is -1 while it is running *)
StartedProcess(enabled) ==
    [pc |-> "main", enabled |-> enabled, steps |-> <<>>, outcome |-> "pending",
     tree |-> "clean", detected |-> FALSE, pr |-> FALSE,
     exitCode |-> -1, exitBy |-> "none",
     buffer |-> {}, recorded |-> {}, sent |-> {},
     sends |-> [w \in Flushers |-> NoSend],
     pending |-> {}, handled |-> {}, shutdowns |-> {}]

(* GrafanaMetrics.recordCounter, recordGauge and recordHistogram: nothing  *)
(* when disabled, else addMetric puts the point into the buffer            *)
addMetric(p, name) ==
    IF ~p.enabled THEN p
    ELSE [p EXCEPT !.buffer = @ \cup {name}, !.recorded = @ \cup {name}]

(* process.exit(code): the process ends at once, whatever is in flight *)
processExit(p, code, by) ==
    [p EXCEPT !.pc = "exited", !.exitCode = code, !.exitBy = by]

(* what follows `await CostTracker.shutdown()` in its caller: main returns *)
(* from its finally block, a signal handler calls process.exit(0), the     *)
(* timer's callback has nothing after the flush                            *)
afterShutdown(p, who) ==
    IF who = "main" THEN [p EXCEPT !.pc = "done", !.shutdowns = @ \cup {who}]
    ELSE IF who \in Signals
    THEN processExit([p EXCEPT !.shutdowns = @ \cup {who}], 0, who)
    ELSE p

(* flush in a handler that does not wait for the send before it exits *)
flushWithoutAwait(p, who) ==
    IF ~p.enabled \/ p.buffer = {} THEN afterShutdown(p, who)
    ELSE IF who \in Signals
    THEN processExit([p EXCEPT !.sends[who] = [active |-> TRUE, payload |-> p.buffer]],
                     0, who)
    ELSE [p EXCEPT !.sends[who] = [active |-> TRUE, payload |-> p.buffer],
                   !.pc = IF who = "main" THEN "shutdown" ELSE @]

(* GrafanaMetrics.flush up to its await: returns at once when disabled or  *)
(* when the buffer is empty, else builds the payload from the buffer and   *)
(* starts the send                                                         *)
flush(p, who) ==
    IF ~p.enabled \/ p.buffer = {} THEN afterShutdown(p, who)
    ELSE [p EXCEPT !.sends[who] = [active |-> TRUE, payload |-> p.buffer],
                   !.pc = IF who = "main" THEN "shutdown" ELSE @]

(* GrafanaMetrics.flush after its await: a send that succeeded is followed *)
(* by metrics.clear(), a send that failed by a warning                     *)
sendDone(p, who, ok) ==
    LET payload == p.sends[who].payload
        q == [p EXCEPT !.sends[who] = NoSend,
                       !.buffer = IF ok THEN {} ELSE @,
                       !.sent = IF ok THEN @ \cup payload ELSE @]
    IN  afterShutdown(q, who)

(* the catch block of DevAgent.run records the error and the execution and *)
(* rethrows; the catch block of main calls process.exit(1)                 *)
runFailed(p) ==
    processExit(addMetric(addMetric([p EXCEPT !.outcome = "failed"], "error"),
                          "execution"), 1, "main")

(* DevAgent.run records the execution and returns; main goes through its   *)
(* finally block                                                           *)
runSucceeded(p) ==
    flush(addMetric([p EXCEPT !.outcome = "success"], "execution"), "main")

(* GitService.checkForChanges: a failing git status is logged and counts   *)
(* as no change                                                            *)
checkForChanges(status) ==
    IF status = "fails" THEN FALSE ELSE status = "dirty"

(* commitAndPush without the rethrow of a failed push *)
commitAndPushUnchecked(git) ==
    IF ~git.add THEN [threw |-> TRUE, steps |-> <<>>]
    ELSE IF ~git.commit THEN [threw |-> TRUE, steps |-> <<>>]
    ELSE IF git.push \/ git.retry THEN [threw |-> FALSE, steps |-> <<"commit", "push">>]
    ELSE [threw |-> FALSE, steps |-> <<"commit">>]

(* GitService.commitAndPush: the steps that succeeded, and whether it threw *)
commitAndPush(git) ==
    IF ~git.add THEN [threw |-> TRUE, steps |-> <<>>]
    ELSE IF ~git.commit THEN [threw |-> TRUE, steps |-> <<>>]
    ELSE IF git.push \/ git.retry THEN [threw |-> FALSE, steps |-> <<"commit", "push">>]
    ELSE [threw |-> TRUE, steps |-> <<"commit">>]

(* the process is waiting on the event loop: signal handlers, the timer    *)
(* and the completions of requests run only there                          *)
AtEventLoop(p) == p.pc \in {"createPR", "shutdown", "done"}

(***************************************************************************)
(* State                                                                   *)
(***************************************************************************)
NoCall == [op |-> "none"]

CacheNames == {"repo-structure", "file-summaries", "issue-patterns"}

NoFile == [exists |-> FALSE]

InitProc == proc = StartedProcess(FALSE)

InitEnv == env = BaseEnv /\ lastSet = "none" /\ ret = NoCall

InitCLI == cli = NoCall

InitCache ==
    /\ now = 0
    /\ ticks = 0
    /\ files = [n \in CacheNames |-> NoFile]
    /\ cret = NoCall

InitRun == run = IdleRun

(* two runs that are about to call saveFileSummary, each on its own path *)
Procs == {1, 2}

RacePath(p) == IF p = 1 THEN "src/a.ts" ELSE "src/b.ts"

ReadyProc ==
    [pc |-> "ready", summary |-> Null, currentSummaries |-> EmptyMap,
     merged |-> EmptyMap, overlapped |-> FALSE]

InitProcs == procs = [p \in Procs |-> ReadyProc]

InitInv == inv = IdleInv

InitFn == fn = NoCall

Init == InitEnv /\ InitCLI /\ InitCache /\ InitRun /\ InitProcs /\ InitProc /\ InitInv /\ InitFn

(***************************************************************************)
(* Actions: the environment and the factory                                *)
(***************************************************************************)
(* process.env.X = value *)
SetEnv ==
    \E v \in ProviderVars :
        \E x \in (IF v = "AI_MODEL" THEN ModelValues ELSE EnvDomain(v)) \ {Undefined} :
            /\ env' = [env EXCEPT ![v] = x]
            /\ lastSet' = v
            /\ ret' = NoCall
            /\ UNCHANGED <<cli, now, ticks, files, cret, run, procs, inv, fn, proc>>

(* delete process.env.X *)
DeleteEnv ==
    \E v \in ProviderVars :
        /\ env[v] # Undefined
        /\ env' = [env EXCEPT ![v] = Undefined]
        /\ lastSet' = lastSet
        /\ ret' = NoCall
        /\ UNCHANGED <<cli, now, ticks, files, cret, run, procs, inv, fn, proc>>

DetectProvider ==
    /\ ret' = [op |-> "detectProvider", value |-> detectProvider(env)]
    /\ UNCHANGED <<env, lastSet, cli, now, ticks, files, cret, run, procs, inv, fn, proc>>

GetProviderConfig ==
    /\ ret' = [op |-> "getProviderConfig", value |-> getProviderConfig(env)]
    /\ UNCHANGED <<env, lastSet, cli, now, ticks, files, cret, run, procs, inv, fn, proc>>

(* with the shipped ClaudeProvider, GeminiProvider and OpenAIProvider *)
CreateProviderWithFallback ==
    \E throws \in ShippedThrowSets :
        /\ ret' = [op |-> "createProviderWithFallback", throws |-> throws,
                   value |-> createProviderWithFallback(env, throws)]
        /\ UNCHANGED <<env, lastSet, cli, now, ticks, files, cret, run, procs, inv, fn, proc>>

(* with any providers that implement IAIProvider *)
CreateProviderWithFallbackAnyProvider ==
    \E throws \in InterfaceThrowSets :
        /\ ret' = [op |-> "createProviderWithFallback", throws |-> throws,
                   value |-> createProviderWithFallback(env, throws)]
        /\ UNCHANGED <<env, lastSet, cli, now, ticks, files, cret, run, procs, inv, fn, proc>>

Validate ==
    \E mode \in DevAgentModes :
        /\ ret' = [op |-> "validate", mode |-> mode, value |-> validate(mode, env)]
        /\ UNCHANGED <<env, lastSet, cli, now, ticks, files, cret, run, procs, inv, fn, proc>>

ValidateCLI ==
    \E provider \in AIProviders, versionResult \in SpawnResults, authResult \in SpawnResults :
        /\ cli' = [op |-> "validateCLI", provider |-> provider,
                   versionResult |-> versionResult, authResult |-> authResult,
                   value |-> validateCLI(provider, versionResult, authResult)]
        /\ UNCHANGED <<env, lastSet, ret, now, ticks, files, cret, run, procs, inv, fn, proc>>

(***************************************************************************)
(* Actions: the cache                                                      *)
(***************************************************************************)
MaxTicks == 2

TickSteps == {1, REPOSITORY_STRUCTURE, ISSUE_PATTERNS, FILE_SUMMARIES}

(* time passes between two cache operations *)
Tick ==
    \E d \in TickSteps :
        /\ ticks < MaxTicks
        /\ now' = now + d
        /\ ticks' = ticks + 1
        /\ UNCHANGED <<env, lastSet, ret, cli, files, cret, run, procs, inv, fn, proc>>

ReadOutcomes == {io \in IOOutcomes : ~io.writeFails}

ReadFailed(io) == io.statFails \/ io.readFails

AnyFailed(io) == io.statFails \/ io.readFails \/ io.writeFails

Failures(io) == {f \in {"statFails", "readFails", "writeFails"} : io[f]}

(* one file-system call fails at most in each cache read or write *)
OneFailure == {io \in IOOutcomes : Cardinality(Failures(io)) <= 1}

(* the outcomes of an operation that reads the file twice: at most one call fails *)
TwoReads ==
    {p \in (OneFailure \cap ReadOutcomes) \X OneFailure :
        p[1] = NoIOFailure \/ p[2] = NoIOFailure}

SaveRepositoryStructure ==
    \E repository \in Repositories, structure \in Structures, io \in IOOutcomes :
        /\ ~io.statFails /\ ~io.readFails
        /\ files' = saveRepositoryStructure(files, now, repository, structure, io)
        /\ cret' = [op |-> "saveRepositoryStructure", repository |-> repository,
                    structure |-> structure, threw |-> FALSE, wrote |-> ~io.writeFails]
        /\ UNCHANGED <<env, lastSet, ret, cli, now, ticks, run, procs, inv, fn, proc>>

GetRepositoryStructure ==
    \E io \in ReadOutcomes :
        LET r == getRepositoryStructure(files, now, io)
        IN  /\ cret' = [op |-> "getRepositoryStructure", threw |-> r.threw,
                        value |-> r.value, ioFailed |-> ReadFailed(io)]
            /\ UNCHANGED <<env, lastSet, ret, cli, now, ticks, files, run, procs, inv, fn, proc>>

GetFileSummaries ==
    \E repository \in Repositories, io \in ReadOutcomes :
        LET r == getFileSummaries(files, now, repository, io)
        IN  /\ cret' = [op |-> "getFileSummaries", repository |-> repository,
                        threw |-> r.threw, value |-> r.value, ioFailed |-> ReadFailed(io)]
            /\ UNCHANGED <<env, lastSet, ret, cli, now, ticks, files, run, procs, inv, fn, proc>>

SaveFileSummary ==
    \E repository \in Repositories, filePath \in Paths, summary \in Summaries,
       io \in TwoReads :
        LET io1 == io[1]
            io2 == io[2]
            r == saveFileSummary(files, now, repository, filePath, summary, io1, io2)
        IN  /\ files' = r.files
            /\ cret' = [op |-> "saveFileSummary", repository |-> repository,
                        filePath |-> filePath, summary |-> summary,
                        threw |-> r.threw,
                        ioFailed |-> ReadFailed(io1) \/ AnyFailed(io2)]
            /\ UNCHANGED <<env, lastSet, ret, cli, now, ticks, run, procs, inv, fn, proc>>

RemoveFileSummary ==
    \E repository \in Repositories, filePath \in Paths,
       io \in TwoReads :
        LET io1 == io[1]
            io2 == io[2]
            seen == getFileSummaries(files, now, repository, io1)
            r == removeFileSummary(files, now, repository, filePath, io1, io2)
        IN  /\ files' = r.files
            /\ cret' = [op |-> "removeFileSummary", repository |-> repository,
                        filePath |-> filePath,
                        threw |-> r.threw,
                        hadEntry |-> ~seen.threw /\ filePath \in DOMAIN seen.value.summaries,
                        ioFailed |-> ReadFailed(io1) \/ AnyFailed(io2)]
            /\ UNCHANGED <<env, lastSet, ret, cli, now, ticks, run, procs, inv, fn, proc>>

GetIssuePatterns ==
    \E repository \in Repositories, io \in ReadOutcomes :
        LET r == getIssuePatterns(files, now, repository, io)
        IN  /\ cret' = [op |-> "getIssuePatterns", repository |-> repository,
                        threw |-> r.threw, value |-> r.value, ioFailed |-> ReadFailed(io)]
            /\ UNCHANGED <<env, lastSet, ret, cli, now, ticks, files, run, procs, inv, fn, proc>>

SaveIssuePattern ==
    \E repository \in Repositories, issueType \in IssueTypes,
       relevantFiles \in {<<>>, <<"src/auth.ts">>}, io \in OneFailure :
        LET r == saveIssuePattern(files, now, repository, issueType, relevantFiles, io)
        IN  /\ files' = r.files
            /\ cret' = [op |-> "saveIssuePattern", repository |-> repository,
                        issueType |-> issueType, relevantFiles |-> relevantFiles,
                        threw |-> r.threw, ioFailed |-> AnyFailed(io)]
            /\ UNCHANGED <<env, lastSet, ret, cli, now, ticks, run, procs, inv, fn, proc>>

(* another program (a cache restore, a copy, touch) gives an existing      *)
(* cache file a new last-write time without changing its content           *)
Touch ==
    \E n \in CacheNames :
        /\ files[n].exists
        /\ files[n].mtime # now
        /\ files' = [files EXCEPT ![n].mtime = now]
        /\ UNCHANGED <<env, lastSet, ret, cli, now, ticks, cret, run, procs, inv, fn, proc>>

(***************************************************************************)
(* Actions: the fix-mode run, one action per awaited step                  *)
(***************************************************************************)
(* main: new DevAgent(FIX), then run() up to the await of createBranch *)
Main ==
    \E mkdirFails \in BOOLEAN :
        /\ run.pc = "idle"
        /\ run' = IF validate(FIX, env).threw THEN Fatal(run, "validate")
                  ELSE IF ~Truthy(env["GITHUB_TOKEN"]) THEN Fatal(run, "initializeFixModeServices")
                  ELSE IF mkdirFails THEN Fatal(run, "mkdirSync")
                  ELSE IF ~Truthy(env["ISSUE_NUMBER"]) THEN Fatal(run, "runFixMode")
                  ELSE [run EXCEPT !.pc = "createBranch"]
        /\ UNCHANGED <<env, lastSet, ret, cli, now, ticks, files, cret, procs, inv, fn, proc>>

(* the issues a fix-mode run can be started for, and the lists             *)
(* FileRelevanceAnalyzer.findRelevantFiles can compute for each of them    *)
Issues == {"auth", "cart"}

RelevantFor(issue) ==
    CASE issue = "auth" -> {<<>>, <<"src/auth.ts">>}
      [] issue = "cart" -> {<<>>, <<"src/cart.ts">>}

(* the record of one getRepositoryContext call *)
ContextCall(issue, issueText, relevant, io, context) ==
    [op |-> "getRepositoryContext", issue |-> issue, issueText |-> issueText,
     relevant |-> relevant, io |-> io, ioFailed |-> AnyFailed(io), threw |-> context.threw,
     value |-> context.value]

(* createBranch, then getRepositoryContext and the prompt, up to the await of runClaude *)
CreateBranch ==
    \E ok \in BOOLEAN, issue \in Issues, issueText \in BOOLEAN, fresh \in FreshStructures,
       io \in OneFailure :
        \E relevant \in (IF issueText THEN RelevantFor(issue) ELSE {<<>>}) :
            LET repository == env["REPOSITORY"]
                context == getRepositoryContext(files, now, repository, issueText,
                                                relevant, fresh, io)
            IN  /\ run.pc = "createBranch"
                /\ IF ~ok
                   THEN run' = Fatal(run, "createBranch") /\ files' = files /\ cret' = cret
                   ELSE /\ cret' = ContextCall(issue, issueText, relevant, io, context)
                        /\ IF context.threw
                           THEN run' = Fatal(run, "getRepositoryContext") /\ files' = files
                           ELSE /\ run' = [run EXCEPT !.pc = "runClaude",
                                                      !.context = context.value]
                                /\ files' = context.files
                /\ UNCHANGED <<env, lastSet, ret, cli, now, ticks, procs, inv, fn, proc>>

(* runClaude, then checkForChanges, up to the await of commitAndPush *)
RunClaude ==
    \E outcome \in ClaudeOutcomes, changes \in BOOLEAN :
        LET result == runClaude(outcome)
            tried == [run EXCEPT !.attempts = Append(@, CLAUDE)]
        IN  /\ run.pc = "runClaude"
            /\ run' = IF result.threw THEN Fatal(tried, "runClaude")
                      ELSE IF changes THEN [tried EXCEPT !.pc = "commitAndPush"]
                      ELSE Completed(tried)
            /\ UNCHANGED <<env, lastSet, ret, cli, now, ticks, files, cret, procs, inv, fn, proc>>

CommitAndPush ==
    \E ok \in BOOLEAN :
        /\ run.pc = "commitAndPush"
        /\ run' = IF ok THEN [run EXCEPT !.pc = "createPR"] ELSE Fatal(run, "commitAndPush")
        /\ UNCHANGED <<env, lastSet, ret, cli, now, ticks, files, cret, procs, inv, fn, proc>>

CreatePR ==
    \E ok \in BOOLEAN :
        /\ run.pc = "createPR"
        /\ run' = IF ok THEN Completed(run) ELSE Fatal(run, "createPR")
        /\ UNCHANGED <<env, lastSet, ret, cli, now, ticks, files, cret, procs, inv, fn, proc>>

(***************************************************************************)
(* Actions: the cache-update run, one action per awaited step              *)
(***************************************************************************)
(* the lists of changed files the workflow can hand to the run *)
ChangedFileLists ==
    {<<>>, <<"src/a.ts">>, <<"package.json">>, <<"src/a.ts", "package.json">>}

(* main: new DevAgent(CACHE_UPDATE), then run() and runCacheUpdateMode up  *)
(* to the first awaited updateFileSummary                                  *)
MainCacheUpdate ==
    \E mkdirFails \in BOOLEAN, changedFiles \in ChangedFileLists :
        /\ run.pc = "idle"
        /\ run' = IF validate(CACHE_UPDATE, env).threw THEN Fatal(run, "validate")
                  ELSE IF mkdirFails THEN Fatal(run, "mkdirSync")
                  ELSE [run EXCEPT !.pc = "updateFileSummary",
                                   !.changedFiles = changedFiles,
                                   !.pending = SelectSeq(changedFiles, isRelevantFileForCache)]
        /\ UNCHANGED <<env, lastSet, ret, cli, now, ticks, files, cret, procs, inv, fn, proc>>

(* one awaited updateFileSummary(file) of the loop over the changed files *)
UpdateFileSummary ==
    \E fileState \in FileStates, io \in TwoReads :
        \E summary \in (IF fileState = "readable" THEN Summaries
                        ELSE {CHOOSE x \in Summaries : TRUE}) :
            /\ run.pc = "updateFileSummary"
            /\ run.pending # <<>>
            /\ fileState = "unreadable" => io = <<NoIOFailure, NoIOFailure>>
            /\ files' = updateFileSummary(files, now, env["REPOSITORY"], Head(run.pending),
                                          fileState, summary, io)
            /\ run' = [run EXCEPT !.pending = Tail(@)]
            /\ UNCHANGED <<env, lastSet, ret, cli, now, ticks, cret, procs, inv, fn, proc>>

(* the record of the getRepositoryContext() call of the cache-update run,  *)
(* with what a detection pass over the file system finds at that time      *)
RefreshCall(io, ioSave, context, fresh) ==
    [op |-> "getRepositoryContext", issue |-> "none", issueText |-> FALSE,
     relevant |-> <<>>, io |-> io, ioFailed |-> AnyFailed(io) \/ AnyFailed(ioSave),
     threw |-> context.threw, value |-> context.value,
     detected |-> [fresh EXCEPT !.relevantFiles = <<>>]]

(* after the loop: the repository structure is refreshed when a config     *)
(* file changed, then the run completes                                    *)
UpdateStructure ==
    \E fresh \in FreshStructures, io \in OneFailure, ioSave \in OneFailure :
        LET structuralChanges ==
                \E i \in 1..Len(run.changedFiles) : structuralChange(run.changedFiles[i])
            repository == env["REPOSITORY"]
            context == getRepositoryContext(files, now, repository, FALSE, <<>>, fresh, io)
        IN  /\ run.pc = "updateFileSummary"
            /\ run.pending = <<>>
            /\ ~ioSave.statFails /\ ~ioSave.readFails
            /\ IF ~structuralChanges
               THEN /\ io = NoIOFailure /\ ioSave = NoIOFailure
                    /\ fresh = CHOOSE x \in FreshStructures : TRUE
                    /\ run' = Completed(run) /\ files' = files /\ cret' = cret
               ELSE /\ cret' = RefreshCall(io, ioSave, context, fresh)
                    /\ IF context.threw
                       THEN run' = Fatal(run, "getRepositoryContext") /\ files' = files
                       ELSE /\ run' = Completed([run EXCEPT !.context = context.value])
                            /\ files' = saveRepositoryStructure(context.files, now, repository,
                                                                context.value, ioSave)
            /\ UNCHANGED <<env, lastSet, ret, cli, now, ticks, procs, inv, fn, proc>>

(* the workflow starts the next run: a new process, which has made no call yet *)
StartRun ==
    /\ run.pc = "exited"
    /\ run' = IdleRun
    /\ cret' = NoCall
    /\ UNCHANGED <<env, lastSet, ret, cli, now, ticks, files, procs, inv, fn, proc>>

(* time passes between two runs *)
Wait ==
    /\ run.pc = "exited"
    /\ Tick

(***************************************************************************)
(* Actions: saveFileSummary in two concurrent runs, one action per         *)
(* file-system access                                                      *)
(***************************************************************************)
(* a step of p while the other run is between its first read and its write *)
Overlaps(p) == \E q \in Procs \ {p} : procs[q].pc \in {"save", "write"}

Step(p, next) ==
    [q \in Procs |->
        IF q = p THEN [next EXCEPT !.overlapped = procs[p].overlapped \/ Overlaps(p)]
        ELSE [procs[q] EXCEPT !.overlapped = @ \/ Overlaps(p)]]

(* saveFileSummary: getFileSummaries(), currentSummaries[filePath] = summary *)
RaceRead(p) ==
    \E summary \in Summaries :
        LET summaries == getFileSummaries(files, now, "a/x", NoIOFailure)
        IN  /\ procs[p].pc = "ready"
            /\ procs' = Step(p, [procs[p] EXCEPT
                                    !.pc = "save", !.summary = summary,
                                    !.currentSummaries =
                                        assignKey(summaries.value.summaries, RacePath(p), summary)])
            /\ UNCHANGED <<env, lastSet, ret, cli, now, ticks, files, cret, run, inv, fn, proc>>

(* saveFileSummaries: getFileSummaries() again and the merge *)
RaceMerge(p) ==
    LET existing == getFileSummaries(files, now, "a/x", NoIOFailure)
    IN  /\ procs[p].pc = "save"
        /\ procs' = Step(p, [procs[p] EXCEPT
                                !.pc = "write",
                                !.merged = spread(existing.value.summaries,
                                                  procs[p].currentSummaries)])
        /\ UNCHANGED <<env, lastSet, ret, cli, now, ticks, files, cret, run, inv, fn, proc>>

(* saveFileSummaries: writeFileSync of the merged map *)
RaceWrite(p) ==
    /\ procs[p].pc = "write"
    /\ files' = writeCache(files, now, "file-summaries",
                           [repository |-> "a/x", timestamp |-> now,
                            summaries |-> jsonSummaries(procs[p].merged)], NoIOFailure)
    /\ procs' = Step(p, [procs[p] EXCEPT !.pc = "done"])
    /\ UNCHANGED <<env, lastSet, ret, cli, now, ticks, cret, run, inv, fn, proc>>

(***************************************************************************)
(* Actions: one runPrompt invocation of a provider                         *)
(***************************************************************************)
EnterPhase(i, pc) == [i EXCEPT !.pc = pc, !.trace = Append(@, pc)]

(* runPrompt is called: the log lines, then validateCLI() *)
StartPrompt ==
    \E provider \in AIProviders :
        /\ inv.pc \in {"idle"} \cup Terminal
        /\ inv' = EnterPhase([IdleInv EXCEPT !.provider = provider], "validating")
        /\ UNCHANGED <<env, lastSet, ret, cli, now, ticks, files, cret, run, procs, fn, proc>>

(* validateCLI() returns and the prompt file is written *)
WritePrompt ==
    \E versionResult \in SpawnResults, authResult \in SpawnResults, writeFails \in BOOLEAN :
        LET validated == validateCLI(inv.provider, versionResult, authResult)
            written == writePrompt(writeFails)
        IN  /\ inv.pc = "validating"
            /\ inv' = IF validated.threw
                      THEN [EnterPhase(inv, "error") EXCEPT
                               !.out = PromptThrew(PromptError("validateCLI"))]
                      ELSE IF written.threw
                      THEN [EnterPhase(inv, "error") EXCEPT
                               !.promptWritten = written.written,
                               !.out = PromptThrew(PromptError("fs"))]
                      ELSE [EnterPhase(inv, "prompt-written") EXCEPT
                               !.promptWritten = written.written]
            /\ UNCHANGED <<env, lastSet, ret, cli, now, ticks, files, cret, run, procs, fn, proc>>

(* spawnSync starts the CLI with the prompt file *)
SpawnPrompt ==
    /\ inv.pc = "prompt-written"
    /\ inv' = [EnterPhase(inv, "subprocess-running") EXCEPT !.spawns = @ + 1]
    /\ UNCHANGED <<env, lastSet, ret, cli, now, ticks, files, cret, run, procs, fn, proc>>

(* spawnSync returns; runPrompt throws or returns parseResponse(output) *)
FinishPrompt ==
    \E result \in PromptResults, logWriteFails \in BOOLEAN :
        LET out == afterSpawn(inv.provider, result, logWriteFails)
        IN  /\ inv.pc = "subprocess-running"
            /\ inv' = [EnterPhase(inv, Classify(out)) EXCEPT
                          !.result = result, !.logWriteFails = logWriteFails, !.out = out]
            /\ UNCHANGED <<env, lastSet, ret, cli, now, ticks, files, cret, run, procs, fn, proc>>

(***************************************************************************)
(* Actions: token estimation                                               *)
(***************************************************************************)
EstimateTokens ==
    /\ fn.op = "input"
    /\ fn' = [op |-> "estimateTokens", text |-> fn.text, value |-> estimateTokens(fn.text)]
    /\ UNCHANGED <<env, lastSet, ret, cli, now, ticks, files, cret, run, procs, inv, proc>>

(* parseResponse of the providers whose CLI prints plain text *)
ParseResponse ==
    \E provider \in {GEMINI, OPENAI} :
        /\ fn.op = "input"
        /\ fn.text \in Texts
        /\ fn' = [op |-> "parseResponse", provider |-> provider, text |-> fn.text,
                  response |-> parseResponse(provider, fn.text).response]
        /\ UNCHANGED <<env, lastSet, ret, cli, now, ticks, files, cret, run, procs, inv, proc>>

(***************************************************************************)
(* Actions: file relevance                                                 *)
(***************************************************************************)
CalculateFileRelevance ==
    \E stat \in StatOutcomes :
        /\ fn.op = "file"
        /\ fn' = [op |-> "calculateFileRelevance", file |-> fn.file,
                  keywords |-> fn.keywords, issueBody |-> fn.issueBody, stat |-> stat,
                  score |-> calculateFileRelevance(fn.file, fn.keywords, fn.issueBody, stat)]
        /\ UNCHANGED <<env, lastSet, ret, cli, now, ticks, files, cret, run, procs, inv, proc>>

(***************************************************************************)
(* Actions: issue keywords                                                 *)
(***************************************************************************)
ExtractIssueKeywords ==
    /\ fn.op = "issue"
    /\ fn' = [op |-> "extractIssueKeywords", issueTitle |-> fn.issueTitle,
              issueBody |-> fn.issueBody,
              keywords |-> extractIssueKeywords(fn.issueTitle, fn.issueBody)]
    /\ UNCHANGED <<env, lastSet, ret, cli, now, ticks, files, cret, run, procs, inv, proc>>

(* calculateCost, of the tracker and of the provider, on two usages, on    *)
(* their sum and on the double of the first                                *)
CalculateCost ==
    /\ fn.op = "usages"
    /\ LET double == AddUsage(fn.u1, fn.u1)
           both == AddUsage(fn.u1, fn.u2)
       IN  fn' = [op |-> "calculateCost", provider |-> fn.provider,
                  u1 |-> fn.u1, u2 |-> fn.u2,
                  cost1 |-> calculateCost(fn.u1, fn.provider).totalCost,
                  cost2 |-> calculateCost(fn.u2, fn.provider).totalCost,
                  costBoth |-> calculateCost(both, fn.provider).totalCost,
                  costDouble |-> calculateCost(double, fn.provider).totalCost,
                  own1 |-> providerCalculateCost(fn.provider, fn.u1),
                  own2 |-> providerCalculateCost(fn.provider, fn.u2),
                  ownBoth |-> providerCalculateCost(fn.provider, both),
                  ownDouble |-> providerCalculateCost(fn.provider, double)]
    /\ UNCHANGED <<env, lastSet, ret, cli, now, ticks, files, cret, run, procs, inv, proc>>

(* calculateCost on one usage under the pricing of each provider *)
CompareProviders ==
    /\ fn.op = "usage"
    /\ fn' = [op |-> "compareProviders", usage |-> fn.usage,
              claudeCost |-> calculateCost(fn.usage, CLAUDE),
              geminiCost |-> calculateCost(fn.usage, GEMINI),
              openaiCost |-> calculateCost(fn.usage, OPENAI)]
    /\ UNCHANGED <<env, lastSet, ret, cli, now, ticks, files, cret, run, procs, inv, proc>>

(***************************************************************************)
(* Actions: relevant files                                                 *)
(***************************************************************************)
(* findRelevantFiles on the paths found, or with execSync throwing *)
FindRelevantFiles ==
    \E threw \in BOOLEAN :
        /\ fn.op = "search"
        /\ fn' = [op |-> "findRelevantFiles", keywords |-> fn.keywords,
                  issueBody |-> fn.issueBody, stats |-> fn.stats, files |-> fn.files,
                  threw |-> threw,
                  result |-> findRelevantFiles(fn.keywords, fn.issueBody,
                                               [threw |-> threw, files |-> fn.files],
                                               fn.stats)]
        /\ UNCHANGED <<env, lastSet, ret, cli, now, ticks, files, cret, run, procs, inv, proc>>


(***************************************************************************)
(* The process                                                             *)
(***************************************************************************)
(* main up to agent.run(): the constructor of DevAgent throws or not *)
MainStep ==
    /\ proc.pc = "main"
    /\ \E ok \in BOOLEAN :
         proc' = IF ok THEN [proc EXCEPT !.pc = "createBranch"]
                 ELSE processExit([proc EXCEPT !.outcome = "failed"], 1, "main")
    /\ UNCHANGED <<env, lastSet, ret, cli, now, ticks, files, cret, run, procs, inv, fn>>

CreateBranchStep ==
    /\ proc.pc = "createBranch"
    /\ \E ok \in BOOLEAN :
         LET p == [proc EXCEPT !.steps = Append(@, "createBranch")]
         IN  proc' = IF ok THEN [p EXCEPT !.pc = "getRepositoryContext"]
                     ELSE runFailed(p)
    /\ UNCHANGED <<env, lastSet, ret, cli, now, ticks, files, cret, run, procs, inv, fn>>

GetRepositoryContextStep ==
    /\ proc.pc = "getRepositoryContext"
    /\ \E ok \in BOOLEAN :
         LET p == [proc EXCEPT !.steps = Append(@, "getRepositoryContext")]
         IN  proc' = IF ok THEN [addMetric(p, "cache_hit") EXCEPT !.pc = "runClaude"]
                     ELSE runFailed(p)
    /\ UNCHANGED <<env, lastSet, ret, cli, now, ticks, files, cret, run, procs, inv, fn>>

(* the AI runs: it leaves changes in the working tree or not, and          *)
(* ClaudeService.runClaude returns or throws                               *)
RunClaudeStep ==
    /\ proc.pc = "runClaude"
    /\ \E ok \in BOOLEAN, tree \in {"clean", "dirty"} :
         LET p == [proc EXCEPT !.steps = Append(@, "runClaude"), !.tree = tree]
         IN  proc' = IF ok THEN [addMetric(p, "claude_request") EXCEPT !.pc = "checkForChanges"]
                     ELSE runFailed(addMetric(p, "claude_error"))
    /\ UNCHANGED <<env, lastSet, ret, cli, now, ticks, files, cret, run, procs, inv, fn>>

CheckForChangesStep ==
    /\ proc.pc = "checkForChanges"
    /\ \E status \in {proc.tree, "fails"} :
         LET p == [proc EXCEPT !.steps = Append(@, "checkForChanges"),
                               !.detected = checkForChanges(status)]
         IN  proc' = IF p.detected THEN [p EXCEPT !.pc = "commitAndPush"]
                     ELSE runSucceeded(p)
    /\ UNCHANGED <<env, lastSet, ret, cli, now, ticks, files, cret, run, procs, inv, fn>>

(* commitAndPush, then the request of createPR is sent *)
CommitAndPushStep ==
    /\ proc.pc = "commitAndPush"
    /\ \E git \in GitOutcomes :
         LET done == commitAndPush(git)
             p == [proc EXCEPT !.steps = @ \o done.steps]
         IN  proc' = IF done.threw THEN runFailed(p)
                     ELSE [p EXCEPT !.pc = "createPR", !.steps = Append(@, "createPR")]
    /\ UNCHANGED <<env, lastSet, ret, cli, now, ticks, files, cret, run, procs, inv, fn>>

(* the answer of GitHub to the request of createPR *)
CreatePRStep ==
    /\ proc.pc = "createPR"
    /\ \E ok \in BOOLEAN :
         proc' = IF ok THEN runSucceeded([proc EXCEPT !.pr = TRUE])
                 ELSE runFailed(proc)
    /\ UNCHANGED <<env, lastSet, ret, cli, now, ticks, files, cret, run, procs, inv, fn>>

(* a signal is delivered to the process *)
Signal ==
    /\ proc.pc # "exited"
    /\ \E sig \in Signals \ proc.pending :
         proc' = [proc EXCEPT !.pending = @ \cup {sig}]
    /\ UNCHANGED <<env, lastSet, ret, cli, now, ticks, files, cret, run, procs, inv, fn>>

(* the handler of a signal runs up to its await or to its process.exit *)
HandleSignal ==
    /\ AtEventLoop(proc)
    /\ \E sig \in proc.pending \ proc.handled :
         proc' = flush([proc EXCEPT !.handled = @ \cup {sig}], sig)
    /\ UNCHANGED <<env, lastSet, ret, cli, now, ticks, files, cret, run, procs, inv, fn>>

(* the interval timer of GrafanaMetrics fires *)
TimerFlush ==
    /\ AtEventLoop(proc) /\ proc.enabled
    /\ ~proc.sends["timer"].active
    /\ proc.buffer # {}
    /\ proc' = flush(proc, "timer")
    /\ UNCHANGED <<env, lastSet, ret, cli, now, ticks, files, cret, run, procs, inv, fn>>

(* a send to Grafana ends *)
SendDone ==
    /\ AtEventLoop(proc)
    /\ \E who \in Flushers, ok \in BOOLEAN :
         /\ proc.sends[who].active
         /\ proc' = sendDone(proc, who, ok)
    /\ UNCHANGED <<env, lastSet, ret, cli, now, ticks, files, cret, run, procs, inv, fn>>

(* main has returned and nothing keeps the event loop alive: without       *)
(* metrics no timer was started                                            *)
ExitNaturally ==
    /\ proc.pc = "done" /\ ~proc.enabled
    /\ proc' = processExit(proc, 0, "none")
    /\ UNCHANGED <<env, lastSet, ret, cli, now, ticks, files, cret, run, procs, inv, fn>>

(***************************************************************************)
(* Actions: one subprocess result given to both callers of the claude CLI  *)
(***************************************************************************)
ClassifyResult ==
    /\ fn.op = "result"
    /\ fn' = [op |-> "classified", result |-> fn.result, logWriteFails |-> fn.logWriteFails,
              service |-> runClaudeAfterSpawn(fn.result, fn.logWriteFails),
              provider |-> afterSpawn(CLAUDE, fn.result, fn.logWriteFails)]
    /\ UNCHANGED <<env, lastSet, ret, cli, now, ticks, files, cret, run, procs, inv, proc>>

(***************************************************************************)
(* Specifications                                                          *)
(***************************************************************************)
Next ==
    \/ SetEnv
    \/ DeleteEnv
    \/ DetectProvider
    \/ GetProviderConfig
    \/ CreateProviderWithFallback

Spec == Init /\ [][Next]_vars

NextAnyProvider ==
    \/ SetEnv
    \/ DeleteEnv
    \/ CreateProviderWithFallbackAnyProvider

SpecAnyProvider == Init /\ [][NextAnyProvider]_vars

InitValidate ==
    /\ env \in Envs
    /\ lastSet = "none"
    /\ ret = NoCall
    /\ InitCLI /\ InitCache /\ InitRun /\ InitProcs /\ InitProc /\ InitInv /\ InitFn

NextValidate == Validate

SpecValidate == InitValidate /\ [][NextValidate]_vars

NextCLI == ValidateCLI

SpecCLI == Init /\ [][NextCLI]_vars

NextStructure ==
    \/ Tick
    \/ SaveRepositoryStructure
    \/ GetRepositoryStructure

SpecStructure == Init /\ [][NextStructure]_vars

NextSummaries ==
    \/ Tick
    \/ GetFileSummaries
    \/ SaveFileSummary
    \/ RemoveFileSummary

SpecSummaries == Init /\ [][NextSummaries]_vars

(* the three stores read at different ages; each store starts absent or    *)
(* as one save into the empty cache left it                                *)
SavedStores ==
    LET s == CHOOSE x \in Structures : x.relevantFiles = <<>> /\ ~x.fromCache
        e == [n \in CacheNames |-> NoFile]
        f1 == saveRepositoryStructure(e, 0, "a/x", s, NoIOFailure)
        f2 == saveFileSummary(e, 0, "a/x", "src/a.ts", CHOOSE x \in Summaries : TRUE,
                              NoIOFailure, NoIOFailure).files
        f3 == saveIssuePattern(e, 0, "a/x", "bug", <<"src/auth.ts">>, NoIOFailure).files
    IN  [n \in CacheNames |-> CASE n = "repo-structure" -> f1[n]
                                [] n = "file-summaries" -> f2[n]
                                [] n = "issue-patterns" -> f3[n]]

InitStores ==
    /\ InitEnv /\ InitCLI /\ InitRun /\ InitProcs /\ InitProc /\ InitInv /\ InitFn
    /\ now = 0
    /\ ticks = 0
    /\ cret = NoCall
    /\ \E present \in SUBSET CacheNames :
           files = [n \in CacheNames |-> IF n \in present THEN SavedStores[n] ELSE NoFile]

NextStores ==
    \/ Tick
    \/ Touch
    \/ GetRepositoryStructure
    \/ GetFileSummaries
    \/ GetIssuePatterns

SpecStores == InitStores /\ [][NextStores]_vars

(* the summaries file before the two runs: absent, or holding an older     *)
(* summary of one of the two paths or of a third one                       *)
InitRace ==
    /\ InitEnv /\ InitCLI /\ InitRun /\ InitProcs /\ InitProc /\ InitInv /\ InitFn
    /\ now = 0
    /\ ticks = 0
    /\ cret = NoCall
    /\ \E earlier \in {NoFile} \cup
                      {[exists |-> TRUE, mtime |-> 0,
                        data |-> [repository |-> "a/x", timestamp |-> 0,
                                  summaries |-> jsonSummaries([k \in {path} |-> summary])]] :
                          path \in {"src/a.ts", "src/c.ts"}, summary \in Summaries} :
           files = [n \in CacheNames |-> IF n = "file-summaries" THEN earlier ELSE NoFile]

NextRace ==
    \E p \in Procs :
        \/ RaceRead(p)
        \/ RaceMerge(p)
        \/ RaceWrite(p)

SpecRace == InitRace /\ [][NextRace]_vars

(* runPrompt invocations of the three providers, one after the other *)
NextPrompt ==
    \/ StartPrompt
    \/ WritePrompt
    \/ SpawnPrompt
    \/ FinishPrompt

SpecPrompt == Init /\ [][NextPrompt]_vars

(* estimateTokens and parseResponse on every text, null and undefined *)
InitTokens ==
    /\ InitEnv /\ InitCLI /\ InitCache /\ InitRun /\ InitProcs /\ InitProc /\ InitInv
    /\ fn \in {[op |-> "input", text |-> t] : t \in Texts \cup {NullText, Undefined}}

NextTokens == EstimateTokens \/ ParseResponse

SpecTokens == InitTokens /\ [][NextTokens]_vars

(* calculateFileRelevance on every file, keyword list, type and body *)
InitRelevance ==
    /\ InitEnv /\ InitCLI /\ InitCache /\ InitRun /\ InitProcs /\ InitProc /\ InitInv
    /\ fn \in {[op |-> "file", file |-> f, keywords |-> [terms |-> ts, type |-> ty],
                issueBody |-> b] :
                f \in ScoredFiles, ts \in TermLists, ty \in IssueKinds, b \in IssueBodies}

NextRelevance == CalculateFileRelevance

SpecRelevance == InitRelevance /\ [][NextRelevance]_vars

(* extractIssueKeywords on every title and body *)
InitKeywords ==
    /\ InitEnv /\ InitCLI /\ InitCache /\ InitRun /\ InitProcs /\ InitProc /\ InitInv
    /\ fn \in {[op |-> "issue", issueTitle |-> t, issueBody |-> b] :
                t \in IssueTitles, b \in IssueTexts}

NextKeywords == ExtractIssueKeywords

SpecKeywords == InitKeywords /\ [][NextKeywords]_vars

(* calculateCost on every provider and pair of usages *)
InitCost ==
    /\ InitEnv /\ InitCLI /\ InitCache /\ InitRun /\ InitProcs /\ InitProc /\ InitInv
    /\ fn \in {[op |-> "usages", provider |-> p, u1 |-> u1, u2 |-> u2] :
                p \in AIProviders, u1 \in Usages, u2 \in Usages}

NextCost == CalculateCost

SpecCost == InitCost /\ [][NextCost]_vars

(* one usage under the pricing of every provider *)
InitPricing ==
    /\ InitEnv /\ InitCLI /\ InitCache /\ InitRun /\ InitProcs /\ InitProc /\ InitInv
    /\ fn \in {[op |-> "usage", usage |-> u] : u \in PricedUsages}

NextPricing == CompareProviders

SpecPricing == InitPricing /\ [][NextPricing]_vars
(* findRelevantFiles on every list of found paths *)
InitSearch ==
    /\ InitEnv /\ InitCLI /\ InitCache /\ InitRun /\ InitProcs /\ InitProc /\ InitInv
    /\ fn \in {[op |-> "search", keywords |-> k, issueBody |-> b, stats |-> s, files |-> f] :
                k \in SearchKeywords, b \in SearchBodies, s \in StatPatterns,
                f \in FoundLists}

NextSearch == FindRelevantFiles

SpecSearch == InitSearch /\ [][NextSearch]_vars
InitProcess ==
    /\ InitEnv /\ InitCLI /\ InitCache /\ InitRun /\ InitProcs /\ InitInv /\ InitFn
    /\ proc \in {StartedProcess(enabled) : enabled \in BOOLEAN}

NextProcess ==
    \/ MainStep
    \/ CreateBranchStep
    \/ GetRepositoryContextStep
    \/ RunClaudeStep
    \/ CheckForChangesStep
    \/ CommitAndPushStep
    \/ CreatePRStep
    \/ Signal
    \/ HandleSignal
    \/ TimerFlush
    \/ SendDone
    \/ ExitNaturally

SpecProcess == InitProcess /\ [][NextProcess]_vars
InitClassify ==
    /\ InitEnv /\ InitCLI /\ InitCache /\ InitRun /\ InitProcs /\ InitProc /\ InitInv
    /\ fn \in {[op |-> "result", result |-> result, logWriteFails |-> logWriteFails] :
                 result \in PromptResults, logWriteFails \in BOOLEAN}

NextClassify == ClassifyResult

SpecClassify == InitClassify /\ [][NextClassify]_vars




(* the structures a previous run can have left in the cache *)
LeftStructures ==
    {NoFile} \cup
    {[exists |-> TRUE, mtime |-> 0,
      data |-> [repository |-> "a/x", timestamp |-> 0, structure |-> s]] :
        s \in {x \in Structures : x.type = "React App" /\ x.relevantFiles = <<>>}}

InitFixRun ==
    /\ env \in Envs
    /\ lastSet = "none"
    /\ ret = NoCall
    /\ InitCLI /\ InitRun /\ InitProcs /\ InitProc /\ InitInv /\ InitFn
    /\ now \in {0, REPOSITORY_STRUCTURE + 1}
    /\ ticks = 0
    /\ cret = NoCall
    /\ \E left \in LeftStructures :
           files = [n \in CacheNames |-> IF n = "repo-structure" THEN left ELSE NoFile]

NextRun ==
    \/ Main
    \/ CreateBranch
    \/ RunClaude
    \/ CommitAndPush
    \/ CreatePR

SpecRun == InitFixRun /\ [][NextRun]_vars

(* the environments of the workflow runs: with and without a provider key *)
RunEnvs == {BaseEnv, [BaseEnv EXCEPT !["ANTHROPIC_API_KEY"] = KeyA]}

InitRuns ==
    /\ env \in RunEnvs
    /\ lastSet = "none"
    /\ ret = NoCall
    /\ InitCLI /\ InitCache /\ InitRun /\ InitProcs /\ InitProc /\ InitInv /\ InitFn

(* fix-mode runs and cache-update runs, one after the other *)
NextRuns ==
    \/ Wait
    \/ StartRun
    \/ Main
    \/ CreateBranch
    \/ RunClaude
    \/ CommitAndPush
    \/ CreatePR
    \/ MainCacheUpdate
    \/ UpdateFileSummary
    \/ UpdateStructure

SpecRuns == InitRuns /\ [][NextRuns]_vars

(***************************************************************************)
(* Properties of the factory, the validator and validateCLI                *)
(***************************************************************************)
IsSet(v) == env[v] # Undefined /\ env[v] # EmptyString

FactoryCalled == ret.op = "createProviderWithFallback"

(* C1: when none of ANTHROPIC_API_KEY, GOOGLE_API_KEY and OPENAI_API_KEY   *)
(* is set, createProviderWithFallback() rejects with the 'All AI providers *)
(* failed to initialize' error and never returns a provider.               *)
C1_NoKeysRejects ==
    (FactoryCalled /\ ~IsSet("ANTHROPIC_API_KEY") /\ ~IsSet("GOOGLE_API_KEY")
        /\ ~IsSet("OPENAI_API_KEY"))
    => (ret.value.outcome = "rejected" /\ ret.value.error = AllFailedMessage)

(* the provider that the presence of the API keys selects *)
ByPriority ==
    IF IsSet("ANTHROPIC_API_KEY") THEN CLAUDE
    ELSE IF IsSet("GOOGLE_API_KEY") THEN GEMINI
    ELSE IF IsSet("OPENAI_API_KEY") THEN OPENAI
    ELSE CLAUDE

(* the provider an AI_PROVIDER value names, in any letter case *)
Named(name) ==
    CASE name = CLAUDE -> CLAUDE
      [] name = <<"G", "E", "M", "I", "N", "I">> -> GEMINI
      [] name = <<"O", "p", "e", "n", "A", "I">> -> OPENAI
      [] OTHER -> Undefined

Rank(p) == CASE p = CLAUDE -> 1 [] p = GEMINI -> 2 [] p = OPENAI -> 3

KeyOf(p) ==
    CASE p = CLAUDE -> env["ANTHROPIC_API_KEY"]
      [] p = GEMINI -> env["GOOGLE_API_KEY"]
      [] p = OPENAI -> env["OPENAI_API_KEY"]

(* C2: when the primary provider's construction or validation throws, the  *)
(* other two providers are tried in the order Claude > Gemini > OpenAI; a  *)
(* candidate without API key is never constructed; the first candidate     *)
(* whose validation succeeds is returned; no provider is tried twice and   *)
(* the primary is never tried again; if every candidate fails the call     *)
(* rejects with the 'all providers failed' error.                          *)
C2_FallbackOrder ==
    (FactoryCalled /\ ret.value.constructed[1] \in ret.throws)
    => LET c == ret.value.constructed
           primary == c[1]
           candidates == {p \in AIProviders \ {primary} :
                             KeyOf(p) # Undefined /\ KeyOf(p) # EmptyString}
           tried == {c[i] : i \in 2..Len(c)}
           working == candidates \ ret.throws
       IN  /\ primary = IF Named(env["AI_PROVIDER"]) # Undefined
                         THEN Named(env["AI_PROVIDER"])
                         ELSE ByPriority
           /\ \A i, j \in 1..Len(c) : i # j => c[i] # c[j]
           /\ tried \subseteq candidates
           /\ \A i, j \in 2..Len(c) : i < j => Rank(c[i]) < Rank(c[j])
           /\ IF working # {}
              THEN LET first == CHOOSE p \in working :
                                    \A q \in working : Rank(p) <= Rank(q)
                   IN  /\ ret.value.outcome = "returned"
                       /\ ret.value.provider = first
                       /\ ret.value.config.provider = first
                       /\ ret.value.config.apiKey = KeyOf(first)
                       /\ tried = {q \in candidates : Rank(q) <= Rank(first)}
              ELSE /\ ret.value.outcome = "rejected"
                   /\ ret.value.error = AllFailedMessage
                   /\ tried = candidates

C2_Witness ==
    /\ FactoryCalled
    /\ env["AI_PROVIDER"] = <<"G", "E", "M", "I", "N", "I">>
    /\ ret.throws = {GEMINI, CLAUDE}
    /\ IsSet("ANTHROPIC_API_KEY") /\ IsSet("OPENAI_API_KEY")
    /\ ret.value.constructed = <<GEMINI, CLAUDE, OPENAI>>
    /\ ret.value.outcome = "returned"

CheapestAvailable ==
    IF IsSet("GOOGLE_API_KEY") THEN GEMINI
    ELSE IF IsSet("ANTHROPIC_API_KEY") THEN CLAUDE
    ELSE OPENAI

(* C5: with no AI_PROVIDER set and several API keys present, the cheapest  *)
(* available provider is selected: Gemini when GOOGLE_API_KEY and          *)
(* ANTHROPIC_API_KEY are both set.                                         *)
C5_CheapestSelected ==
    (ret.op = "getProviderConfig" /\ env["AI_PROVIDER"] = Undefined
        /\ (IsSet("GOOGLE_API_KEY") \/ IsSet("ANTHROPIC_API_KEY") \/ IsSet("OPENAI_API_KEY")))
    => ret.value.provider = CheapestAvailable

(* C6: getProviderConfig() selects the provider AI_PROVIDER names (in any  *)
(* letter case) whatever keys are present, otherwise the provider that     *)
(* detectProvider() selects; config.apiKey is the value of the selected    *)
(* provider's own API-key variable.                                        *)
C6_ConfigSelection ==
    ret.op = "getProviderConfig"
    => /\ ret.value.provider = IF Named(env["AI_PROVIDER"]) # Undefined
                               THEN Named(env["AI_PROVIDER"])
                               ELSE ByPriority
       /\ ret.value.apiKey = KeyOf(ret.value.provider)

C6_Witness ==
    /\ ret.op = "getProviderConfig"
    /\ env["AI_PROVIDER"] = <<"G", "E", "M", "I", "N", "I">>
    /\ env["ANTHROPIC_API_KEY"] = KeyA
    /\ env["GOOGLE_API_KEY"] = KeyB
    /\ env["OPENAI_API_KEY"] = KeyA
    /\ ret.value.provider = GEMINI
    /\ ret.value.apiKey = KeyB

(* C7: whenever EnvironmentValidator.validate(FIX) succeeds, the provider  *)
(* that getProviderConfig() selects has a non-empty API key.               *)
C7_ValidatedHasKey ==
    (ret.op = "validate" /\ ret.mode = FIX /\ ~ret.value.threw)
    => LET config == getProviderConfig(env)
       IN  config.apiKey # Undefined /\ config.apiKey # EmptyString

C7_Witness ==
    /\ ret.op = "validate" /\ ret.mode = FIX /\ ~ret.value.threw
    /\ env["AI_PROVIDER"] = <<"O", "p", "e", "n", "A", "I">>
    /\ IsSet("ANTHROPIC_API_KEY")
    /\ getProviderConfig(env).provider = OPENAI

(* C8: validateCLI() of Claude, Gemini and OpenAI never throws, whatever   *)
(* the version probe and the auth probe do.                                *)
C8_ValidateCLINeverThrows ==
    cli.op = "validateCLI" => ~cli.value.threw

C8_Witness ==
    /\ cli.op = "validateCLI"
    /\ cli.versionResult.error = "ENOENT"
    /\ cli.authResult.status = 1
    /\ ~cli.value.threw

(* the providers the factory's fallback loop would not skip: those whose   *)
(* API key is set                                                          *)
Eligible == {p \in AIProviders : IsSet(KeyVarOf(p))}

(* C3: when runPrompt() fails on the chosen provider, the prompt is        *)
(* retried with the next eligible provider, and the run ends in a fatal    *)
(* error only after every eligible provider has been tried.                *)
C3_FatalOnlyAfterAllEligibleTried ==
    (run.pc = "exited" /\ run.failedAt = "runClaude")
    => \A p \in Eligible : InSeq(p, run.attempts)

Summaries_(fs) == fs["file-summaries"].data.summaries

HasSummary(fs, path) ==
    fs["file-summaries"].exists /\ path \in DOMAIN Summaries_(fs)

RemoveStep ==
    /\ cret'.op = "removeFileSummary"
    /\ now' = now

(* C9: after removeFileSummary(path) for a path that has a persisted       *)
(* summary (read within the retention time, every file-system call         *)
(* succeeding), the persisted map has no entry for path and every other    *)
(* entry is unchanged.                                                     *)
C9_RemovedEntryGone ==
    [][(/\ RemoveStep
        /\ HasSummary(files, cret'.filePath)
        /\ now - files["file-summaries"].mtime <= FILE_SUMMARIES
        /\ ~cret'.ioFailed)
       => (/\ files'["file-summaries"].exists
           /\ DOMAIN Summaries_(files') = DOMAIN Summaries_(files) \ {cret'.filePath}
           /\ \A k \in DOMAIN Summaries_(files') : Summaries_(files')[k] = Summaries_(files)[k])]_vars

GetAfterSave ==
    /\ cret.op = "saveRepositoryStructure"
    /\ cret.wrote
    /\ cret'.op = "getRepositoryStructure"
    /\ ~cret'.ioFailed

Age == now - files["repo-structure"].mtime

StructureFile == files["repo-structure"]

(* C11: after any sequence of fix-mode runs, for any issues, and of        *)
(* cache-update runs, the persisted repo-structure entry, when present,    *)
(* stores relevantFiles = [].                                              *)
C11_NoRelevantFilesPersisted ==
    StructureFile.exists => StructureFile.data.structure.relevantFiles = <<>>

(* a fix-mode run for an issue with relevant files has just missed the     *)
(* cache and written the entry                                             *)
C11_Witness ==
    /\ cret.op = "getRepositoryContext"
    /\ cret.issueText /\ cret.relevant # <<>>
    /\ ~cret.threw /\ cret.value.relevantFiles = cret.relevant
    /\ ~cret.value.fromCache
    /\ StructureFile.exists /\ StructureFile.mtime = now /\ now > 0

(* C12: every write of the repo-structure entry, from fix mode or from     *)
(* cache-update mode, stores the structure stamped fromCache = false.      *)
C12_PersistedNotFromCache ==
    StructureFile.exists => ~StructureFile.data.structure.fromCache

(***************************************************************************)
(* Properties of the three stores                                          *)
(***************************************************************************)
(* a read that met no file-system error *)
ReadStep(op) ==
    /\ cret'.op = op
    /\ ~cret'.ioFailed
    /\ files' = files
    /\ now' = now

(* the file exists and its age, from its last-write time, is within ttl *)
Fresh(n, ttl) == files[n].exists /\ now - files[n].mtime <= ttl

C14_ReturnedForOwnRepository ==
    (cret.op = "getFileSummaries" /\ ~cret.threw)
    => cret.value.repository = cret.repository

CacheOps ==
    {"getRepositoryStructure", "saveRepositoryStructure", "getFileSummaries",
     "saveFileSummary", "removeFileSummary", "getIssuePatterns", "saveIssuePattern"}

(* C15: no cache operation raises an error to its caller when a file stat, *)
(* read, parse or write fails.                                             *)
C15_NoCacheOperationThrows ==
    cret.op \in CacheOps => ~cret.threw

SaveStep ==
    /\ cret'.op = "saveFileSummary"
    /\ now' = now

SummariesFile == files["file-summaries"]

Merged(m, path, summary) ==
    /\ SummariesFile'.exists
    /\ DOMAIN SummariesFile'.data.summaries = DOMAIN m \cup {path}
    /\ SummariesFile'.data.summaries[path] = jsonSummary(summary)
    /\ \A k \in DOMAIN m \ {path} : SummariesFile'.data.summaries[k] = m[k]

BothDone == \A p \in Procs : procs[p].pc = "done"

Persisted(p) ==
    /\ SummariesFile.exists
    /\ RacePath(p) \in DOMAIN SummariesFile.data.summaries
    /\ SummariesFile.data.summaries[RacePath(p)] = jsonSummary(procs[p].summary)

FixContextStep ==
    /\ run.pc = "createBranch"
    /\ cret'.op = "getRepositoryContext"

(* the cache lookup of the step finds the entry: the file exists, is at    *)
(* most 30 minutes old and is read without error                           *)
Hit ==
    /\ Fresh("repo-structure", REPOSITORY_STRUCTURE)
    /\ ~cret'.io.statFails /\ ~cret'.io.readFails

(* C19: on a cache hit getRepositoryContext returns the cached type,       *)
(* mainLanguage, directories and configFiles with fromCache = true; with   *)
(* an issue title and body its relevantFiles is the list computed in this  *)
(* call for this issue, and without them it is empty: a list computed for  *)
(* one issue is never returned for another.                                *)
C19_HitReturnsCachedWithFreshRelevant ==
    [][(FixContextStep /\ Hit)
       => LET cached == StructureFile.data.structure
              value == cret'.value
          IN  /\ ~cret'.threw
              /\ value.type = cached.type
              /\ value.mainLanguage = cached.mainLanguage
              /\ value.directories = cached.directories
              /\ value.configFiles = cached.configFiles
              /\ value.fromCache
              /\ value.relevantFiles = IF cret'.issueText THEN cret'.relevant ELSE <<>>
              /\ value.relevantFiles \in RelevantFor(cret'.issue)]_vars

(* a run for the cart issue is served from an entry written earlier and    *)
(* gets the cart issue's files                                             *)
C19_Witness ==
    /\ cret.op = "getRepositoryContext" /\ ~cret.threw
    /\ run.pc = "runClaude"
    /\ cret.value.fromCache
    /\ cret.issue = "cart" /\ cret.issueText
    /\ cret.value.relevantFiles = <<"src/cart.ts">>
    /\ StructureFile.exists /\ StructureFile.mtime < now
    /\ cret.value.type = StructureFile.data.structure.type

(* C20: getRepositoryContext writes the repo-structure entry exactly when  *)
(* its cache lookup missed (no entry, expired entry, unreadable entry),    *)
(* storing the fresh structure with relevantFiles emptied; on a hit, and   *)
(* when the lookup raises, the cache files are left untouched.             *)
C20_WritesExactlyOnMiss ==
    [][FixContextStep
       => IF Hit \/ cret'.threw \/ cret'.io.writeFails
          THEN files' = files
          ELSE /\ ~cret'.value.fromCache
               /\ files' = [files EXCEPT !["repo-structure"] =
                              [exists |-> TRUE, mtime |-> now,
                               data |-> [repository |-> env["REPOSITORY"], timestamp |-> now,
                                         structure |-> [cret'.value EXCEPT
                                                           !.relevantFiles = <<>>]]]]]_vars

(* a hit on an entry written earlier: the file keeps its last-write time *)
C20_Witness ==
    /\ cret.op = "getRepositoryContext" /\ ~cret.threw
    /\ run.pc = "runClaude"
    /\ cret.value.fromCache
    /\ StructureFile.exists
    /\ now - StructureFile.mtime = REPOSITORY_STRUCTURE
    /\ StructureFile.data.timestamp = StructureFile.mtime

(***************************************************************************)
(* Properties of the providers' runPrompt                                  *)
(***************************************************************************)
Ended == inv.pc \in Terminal

Phases == <<"validating", "prompt-written", "subprocess-running">>

(* the CLI ran to an exit and the log files of this path were written *)
Exited == Ended /\ inv.spawns = 1 /\ inv.result.error = NoError /\ ~inv.logWriteFails

C22_TimeoutIsDistinguished ==
    (Ended /\ inv.spawns = 1 /\ TimedOut(inv.result))
        => inv.out.threw /\ inv.out.error.type = "timeout" /\ inv.pc = "timeout"

(* the phrases of the rate-limit scan, in any letter case *)
HasRateLimitPhrase(text) ==
    \E phrase \in {RATE_LIMIT, USAGE_LIMIT, QUOTA_EXCEEDED, TOO_MANY_REQUESTS} :
        Includes(toLowerCase(text), phrase)

(* C23: an attempt whose stdout or stderr contains, in any letter case,    *)
(* 'rate limit', 'usage limit', 'quota exceeded' or 'too many requests'    *)
(* ends as rate-limited, also when the CLI exited with status 0            *)
C23_PhraseMeansRateLimited ==
    (Exited /\ (HasRateLimitPhrase(inv.result.stdout) \/ HasRateLimitPhrase(inv.result.stderr)))
        => inv.pc = "rate-limited"

(* C24: when the Claude CLI exits 0 and stdout is not JSON, the error is   *)
(* the rate-limit error if the output contains rate-limit phrasing and the *)
(* invalid-JSON error only if it contains none                             *)
C24_ParseFailureWithPhraseIsRateLimit ==
    (Exited /\ inv.provider = CLAUDE /\ inv.result.status = 0 /\ JSONParse(inv.result.stdout).threw)
        => /\ inv.out.threw
           /\ inv.out.error.type =
                IF HasRateLimitPhrase(inv.result.stdout) THEN "rate limited" ELSE "invalid JSON"

IsCeilOfQuarter(v, n) == 4 * v >= n /\ 4 * (v - 1) < n

EstimatedTokens ==
    fn.op = "estimateTokens" =>
        IF fn.text \in Texts
        THEN IsCeilOfQuarter(fn.value, Len(fn.text))
        ELSE fn.value = 0

EstimatedUsage ==
    fn.op = "parseResponse" =>
        /\ IsCeilOfQuarter(fn.response.usage.outputTokens, Len(fn.text))
        /\ fn.response.usage.inputTokens = 0
        /\ fn.response.usage.cachedTokens = 0

(* the text without the blanks at its two ends *)
IsTrimOf(content, text) ==
    /\ content = <<>> \/ (content[1] # " " /\ content[Len(content)] # " ")
    /\ \E i \in 0..Len(text), j \in 0..Len(text) :
        /\ i + Len(content) + j = Len(text)
        /\ \A k \in 1..Len(text) :
            IF k > i /\ k <= i + Len(content) THEN text[k] = content[k - i]
            ELSE text[k] = " "

(* C28 as stated: estimateTokens(text) is ceil(length / 4), and 0 for an   *)
(* empty, null or undefined text; Gemini and OpenAI parseResponse return   *)
(* the raw stdout as the response text, with outputTokens =                *)
(* ceil(length(output) / 4), inputTokens = 0 and cachedTokens = 0          *)
C28_RawOutputAndEstimate ==
    /\ EstimatedTokens
    /\ EstimatedUsage
    /\ fn.op = "parseResponse" =>
        fn.response.messages = <<[role |-> "assistant", content |-> fn.text]>>

(* C28: the same, with the response text being the stdout without its      *)
(* leading and trailing white space; the estimate is over the length of    *)
(* the stdout as printed                                                   *)
C28_TrimmedOutputAndEstimate ==
    /\ EstimatedTokens
    /\ EstimatedUsage
    /\ fn.op = "parseResponse" =>
        /\ Len(fn.response.messages) = 1
        /\ fn.response.messages[1].role = "assistant"
        /\ IsTrimOf(fn.response.messages[1].content, fn.text)

C28_Witness ==
    /\ fn.op = "parseResponse"
    /\ fn.text = <<"a", "a", "a", "a", " ">>
    /\ fn.response.messages[1].content = <<"a", "a", "a", "a">>
    /\ fn.response.usage.outputTokens = 2

(***************************************************************************)
(* Properties of the relevance score                                       *)
(***************************************************************************)
(* C29: for every file, keyword set and issue body the returned relevance  *)
(* score is at least 0: the test-file penalty never drives it below 0      *)
C29_ScoreNonNegative ==
    fn.op = "calculateFileRelevance" => fn.score >= 0

(* a test file that earns no bonus: the penalty alone, returned as 0 *)
C29_Witness ==
    /\ fn.op = "calculateFileRelevance"
    /\ TestFilePattern(fn.file) /\ ~InSeq(<<"t", "e", "s", "t">>, fn.keywords.terms)
    /\ scoreOf(fn.file, fn.keywords, fn.issueBody, fn.stat) = TEST_FILE_PENALTY
    /\ fn.score = 0

(***************************************************************************)
(* Properties of extractIssueKeywords                                      *)
(***************************************************************************)
IssueText == toLowerCase(fn.issueTitle \o <<" ">> \o fn.issueBody)

Has(word) == Includes(IssueText, word)

(* C30: the type is given by the first match on the lowercased title and   *)
(* body, in the order bug/error/fail, feature/add, enhance/improve, fix,   *)
(* else general; the terms are at most 10 and no term occurs twice         *)
C30_FirstMatchAndTerms ==
    fn.op = "extractIssueKeywords" =>
        /\ fn.keywords.type =
            CASE Has(WORD_BUG) \/ Has(WORD_ERROR) \/ Has(WORD_FAIL) -> "bug"
              [] ~(Has(WORD_BUG) \/ Has(WORD_ERROR) \/ Has(WORD_FAIL))
                 /\ (Has(WORD_FEATURE) \/ Has(WORD_ADD)) -> "feature"
              [] ~(Has(WORD_BUG) \/ Has(WORD_ERROR) \/ Has(WORD_FAIL) \/ Has(WORD_FEATURE) \/ Has(WORD_ADD))
                 /\ (Has(WORD_ENHANCE) \/ Has(WORD_IMPROVE)) -> "enhancement"
              [] ~(Has(WORD_BUG) \/ Has(WORD_ERROR) \/ Has(WORD_FAIL) \/ Has(WORD_FEATURE) \/ Has(WORD_ADD)
                   \/ Has(WORD_ENHANCE) \/ Has(WORD_IMPROVE))
                 /\ Has(WORD_FIX) -> "fix"
              [] OTHER -> "general"
        /\ Len(fn.keywords.terms) <= 10
        /\ \A i \in 1..Len(fn.keywords.terms), j \in 1..Len(fn.keywords.terms) :
            i # j => fn.keywords.terms[i] # fn.keywords.terms[j]

(* a text with 'fail', 'fix' and 'feature' and more than 10 different words *)
C30_Witness ==
    /\ fn.op = "extractIssueKeywords"
    /\ Has(WORD_FAIL) /\ Has(WORD_FIX) /\ Has(WORD_FEATURE)
    /\ fn.keywords.type = "bug"
    /\ Len(fn.keywords.terms) = 10
    /\ Len(extractIssueKeywordsUnlimited(fn.issueTitle, fn.issueBody).terms) > 10

(***************************************************************************)
(* Cost of a request                                                       *)
(***************************************************************************)
Costed == fn.op = "calculateCost"

RECURSIVE Within(_, _, _)
(* y is x or one of the n numbers next above x *)
Within(x, y, n) == x = y \/ (n > 0 /\ x # Zero /\ Within(NextUp(x), y, n - 1))

(* x and y are the same number or at most n numbers apart *)
Near(x, y, n) == Within(x, y, n) \/ Within(y, x, n)

Twice(x) == Times(Number(2), x)

(* C26 as stated: for each provider, calculateCost is additive, cost(u1 +  *)
(* u2) = cost(u1) + cost(u2), and linear, cost(2 x usage) = 2 x            *)
(* cost(usage) for every usage with zero cached tokens.                    *)
C26_AdditiveAndLinear ==
    Costed =>
        /\ fn.costBoth = Sum(fn.cost1, fn.cost2)
        /\ fn.ownBoth = Sum(fn.own1, fn.own2)
        /\ fn.u1.cachedTokens = 0 =>
              /\ fn.costDouble = Twice(fn.cost1)
              /\ fn.ownDouble = Twice(fn.own1)

(* C26, amended: for each provider, the cost of twice a usage is exactly   *)
(* twice the cost of the usage, with or without cached tokens, and the     *)
(* cost of the sum of two usages equals the sum of their costs up to the   *)
(* rounding of the arithmetic: the two are the same number or at most 8    *)
(* numbers apart.                                                          *)
C26_LinearAndNearlyAdditive ==
    Costed =>
        /\ fn.costDouble = Twice(fn.cost1)
        /\ fn.ownDouble = Twice(fn.own1)
        /\ Near(fn.costBoth, Sum(fn.cost1, fn.cost2), 8)
        /\ Near(fn.ownBoth, Sum(fn.own1, fn.own2), 8)

(* Claude, 1 and 2 output tokens: the cost of 3 tokens is not the sum of   *)
(* the two costs, and the cost of 2 tokens is twice the cost of 1          *)
C26_Witness ==
    /\ Costed
    /\ fn.provider = CLAUDE
    /\ fn.u1 = TokenUsage(0, 1, 0)
    /\ fn.u2 = TokenUsage(0, 2, 0)
    /\ fn.costBoth # Sum(fn.cost1, fn.cost2)
    /\ LessThan(Sum(fn.cost1, fn.cost2), fn.costBoth)
    /\ fn.costDouble = Twice(fn.cost1)
    /\ fn.costDouble = fn.cost2

Compared == fn.op = "compareProviders"

Billed == fn.usage.inputTokens + fn.usage.outputTokens >= 1

BaseName == LastSegment(fn.file, "/")

MentionedAnyCase == Includes(toLowerCase(fn.issueBody), toLowerCase(BaseName))

(* the score of the file were the issue body empty *)
ScoreUnmentioned == scoreOf(fn.file, fn.keywords, <<>>, fn.stat)

(* C31: a file whose base name appears in the issue body as a substring,   *)
(* compared without regard to letter case, receives the +100 mention       *)
(* bonus, for base names with upper-case letters as for lower-case ones    *)
C31_MentionBonusAnyCase ==
    fn.op = "calculateFileRelevance" /\ BaseName # <<>> /\ MentionedAnyCase =>
        /\ scoreOf(fn.file, fn.keywords, fn.issueBody, fn.stat)
               = ScoreUnmentioned + MENTIONED_IN_ISSUE
        /\ fn.score = IF ScoreUnmentioned + MENTIONED_IN_ISSUE > 0
                      THEN ScoreUnmentioned + MENTIONED_IN_ISSUE ELSE 0

(***************************************************************************)
(* Properties of findRelevantFiles                                         *)
(***************************************************************************)
Searched == fn.op = "findRelevantFiles"

(* the score of a scanned path, by the position of the path in the scan *)
ScanScore(i) == calculateFileRelevance(fn.files[i], fn.keywords, fn.issueBody,
                                       statAt(fn.stats, i))

(* the position in the scan of a returned path *)
ScanIndex(file) == CHOOSE i \in 1..Len(fn.files) : fn.files[i] = file

ResultScore(k) == ScanScore(ScanIndex(fn.result[k]))

Returned_(i) == \E k \in 1..Len(fn.result) : fn.result[k] = fn.files[i]

(* C32: findRelevantFiles returns at most 20 paths, each of a scanned file *)
(* with a score above 0, in the order of non-increasing score; no scanned  *)
(* file left out has a higher score than a file returned; and when the     *)
(* file discovery fails it returns the empty list                          *)
C32_TopTwentyByScore ==
    Searched =>
        /\ Len(fn.result) <= 20
        /\ fn.threw => fn.result = <<>>
        /\ \A k \in 1..Len(fn.result) :
              /\ \E i \in 1..Len(fn.files) : fn.files[i] = fn.result[k]
              /\ ResultScore(k) > 0
              /\ k > 1 => ResultScore(k - 1) >= ResultScore(k)
        /\ \A i \in 1..Len(fn.files) :
              ~Returned_(i) =>
                  \A k \in 1..Len(fn.result) : ScanScore(i) <= ResultScore(k)

(* more than 20 files found, all with a score above 0 and not all the same *)
(* score: 20 returned, one of the scanned files with the lowest score left *)
(* out                                                                     *)
C32_Witness ==
    /\ Searched /\ ~fn.threw
    /\ Len(fn.files) > 20
    /\ Len(fn.result) = 20
    /\ ResultScore(1) > ResultScore(20)
    /\ \E i \in 1..Len(fn.files) : ~Returned_(i) /\ ScanScore(i) > 0

(***************************************************************************)
(* The refresh of the structure in cache-update mode                       *)
(***************************************************************************)
(* a cache-update run whose changed files hold a structural file has ended *)
(* without error and without a failing file-system call                    *)
Refreshed ==
    /\ run.pc = "exited" /\ run.exitCode = 0
    /\ \E i \in 1..Len(run.changedFiles) : structuralChange(run.changedFiles[i])
    /\ cret.op = "getRepositoryContext" /\ ~cret.ioFailed

(* C36: in cache-update mode, when the changed files hold a structural     *)
(* file, the repository structure persisted at the end of the run is the   *)
(* result of a fresh detection pass over the current file system, not the  *)
(* structure that was cached before the run                                *)
C36_FreshStructurePersisted ==
    Refreshed =>
        /\ StructureFile.exists
        /\ StructureFile.data.structure.type = cret.detected.type
        /\ StructureFile.data.structure.mainLanguage = cret.detected.mainLanguage
        /\ StructureFile.data.structure.directories = cret.detected.directories
        /\ StructureFile.data.structure.configFiles = cret.detected.configFiles

(***************************************************************************)
(* The steps of a fix-mode run                                             *)
(***************************************************************************)
FixOrder == <<"createBranch", "getRepositoryContext", "runClaude", "checkForChanges">>

PublishOrder == <<"commit", "push", "createPR">>

(* the steps taken so far follow the order of runFixMode *)
InFixOrder ==
    LET n == IF Len(proc.steps) < Len(FixOrder) THEN Len(proc.steps) ELSE Len(FixOrder)
    IN  SubSeq(proc.steps, 1, n) = SubSeq(FixOrder, 1, n)

Checked == Len(proc.steps) >= Len(FixOrder)

Requested == \E i \in 1..Len(proc.steps) : proc.steps[i] = "createPR"

(* C33: a fix-mode run performs its steps in the order: create or switch   *)
(* to the branch, gather the repository context, run the AI, check the     *)
(* working tree for changes; a pull request is opened only when changes    *)
(* were detected and only after the commit and the push succeeded; when no *)
(* change is detected the run completes successfully without commit, push  *)
(* or pull request                                                         *)
C33_FixModeStepOrder ==
    /\ InFixOrder
    /\ (Requested \/ proc.pr) => proc.detected /\ proc.steps = FixOrder \o PublishOrder
    /\ (Checked /\ ~proc.detected) =>
          /\ proc.outcome = "success"
          /\ proc.steps = FixOrder
          /\ ~proc.pr

(* a run that opened its pull request and returned *)
C33_Witness ==
    /\ proc.pr /\ proc.outcome = "success"
    /\ proc.steps = FixOrder \o PublishOrder

(* C39: in fix mode, when the AI run left changes in the working tree, the *)
(* run either opens a pull request or fails with an error: it never        *)
(* completes successfully without a pull request, also when the git status *)
(* command itself fails                                                    *)
C39_ChangesEndInPullRequestOrError ==
    (proc.outcome = "success" /\ proc.tree = "dirty") => proc.pr

(***************************************************************************)
(* The exit of the process                                                 *)
(***************************************************************************)
ProcessExited == proc.pc = "exited"

(* C34: the process exits with a non-zero code whenever DevAgent           *)
(* construction or run ends with an unrecovered error, and with code zero  *)
(* only when the run succeeded (the run in which the AI made no changes    *)
(* included); a run that was interrupted before completing never exits     *)
(* with code zero                                                          *)
C34_ExitCodeTellsOutcome ==
    ProcessExited =>
        /\ proc.outcome = "failed" => proc.exitCode # 0
        /\ proc.exitCode = 0 => proc.outcome = "success"

C37_MainFlushesBeforeEveryExit ==
    (ProcessExited /\ proc.exitBy \notin Signals) => "main" \in proc.shutdowns

(* C38: with metrics enabled, no recorded metric point is discarded        *)
(* unsent: under every interleaving of the record calls with the periodic  *)
(* flush and the shutdown flush, a point is removed from the buffer only   *)
(* after a send that contained it succeeded; a point recorded while a send *)
(* is in flight stays buffered, and a failed send leaves the buffer        *)
(* unchanged                                                               *)
C38_NoPointDiscardedUnsent ==
    (proc.enabled /\ ~ProcessExited) => proc.recorded \subseteq (proc.buffer \cup proc.sent)

(***************************************************************************)
(* The two callers of the claude CLI                                       *)
(***************************************************************************)
Classified == fn.op = "classified"

(* C40: ClaudeService.runClaude and ClaudeProvider.runPrompt classify the  *)
(* same subprocess result identically: for every combination of spawn      *)
(* error, exit status, stdout and stderr, either both throw or both        *)
(* return, and neither returns normally a response that carries an error   *)
(* object                                                                  *)
C40_SameClassification ==
    Classified =>
        /\ fn.service.threw = fn.provider.threw
        /\ ~fn.service.threw => fn.service.response.error = Undefined
        /\ ~fn.provider.threw => fn.provider.response.error = Undefined

====
